---------------------------- MODULE Spec2Model ----------------------------
(***************************************************************************)
(* Verification model of the voice-chat coordination layer:                *)
(*   - TopologyManager  (src/unnamed/part_000, TopologyManager.ts)         *)
(*   - HostElection     (src/unnamed/part_001, HostElection.ts)            *)
(*   - MeshConnection   (src/packages/client-core/src/ChatManager.ts,      *)
(*                       lines 189-962, MeshConnection.ts)                 *)
(*   - signaling relay  (src/packages/signaling-server/src/server.ts)      *)
(*                                                                         *)
(* Peer ids are JavaScript strings; they are modelled as sequences of      *)
(* UTF-16 code units so that the default Array.prototype.sort order and    *)
(* the charCodeAt hash of HostElection.scoreTiebreaker are computed, not   *)
(* assumed.  Scores are IEEE doubles in the source; the model computes    *)
(* them exactly, as integers scaled by ScoreScale.                         *)
(***************************************************************************)
EXTENDS Integers, Sequences, FiniteSets, TLC

(***************************************************************************)
(* Peer identifiers                                                        *)
(***************************************************************************)
\* "" : stands for `undefined` where the source holds an optional peer id
NoPeer == << >>
\* "a"
IdA == << 97 >>
\* "b"
IdB == << 98 >>
\* "c"
IdC == << 99 >>
\* "d"
IdD == << 100 >>
\* "e"
IdE == << 101 >>
\* "f"
IdF == << 102 >>
\* "M"
IdM == << 77 >>
\* "0m" : its tiebreaker hash is 1597, which equals that of "a" modulo 100
Id0m == << 48, 109 >>

RECURSIVE StrLess(_, _)
\* x < y in the code-unit order used by Array.prototype.sort() on strings
StrLess(x, y) ==
  IF Len(y) = 0 THEN FALSE
  ELSE IF Len(x) = 0 THEN TRUE
  ELSE IF Head(x) # Head(y) THEN Head(x) < Head(y)
  ELSE StrLess(Tail(x), Tail(y))

\* allPeerIds.sort(); allPeerIds[0]  -- the least element of a non-empty set
SortedFirst(S) == CHOOSE x \in S : \A y \in S : ~StrLess(y, x)

(***************************************************************************)
(* TopologyManager.determineTopology                                       *)
(***************************************************************************)
determineTopologyStrict(peerCount, meshThreshold) ==
  IF peerCount + 1 < meshThreshold THEN "mesh" ELSE "host"

determineTopology(peerCount, meshThreshold) ==
  IF peerCount + 1 <= meshThreshold THEN "mesh" ELSE "host"

(***************************************************************************)
(* HostElection: scoring                                                   *)
(***************************************************************************)
\* totalScore is represented as totalScore * ScoreScale (an integer)
ScoreScale == 19000

\* ((hash << 5) - hash) + code, then `hash & hash`: 31 * hash + code wrapped
\* to a signed 32-bit integer.  It is computed on 16-bit halves, so that no
\* intermediate value leaves the 32-bit range
HashStep(hash, code) ==
  LET hi == hash \div 65536
      lo == hash % 65536
      low == 31 * lo + code
      high == (31 * hi + (low \div 65536)) % 65536
  IN (IF high >= 32768 THEN high - 65536 ELSE high) * 65536 + (low % 65536)

\* JavaScript %, whose result takes the sign of the dividend
JsRem(x, m) == IF x >= 0 THEN x % m ELSE 0 - ((0 - x) % m)

Abs(x) == IF x < 0 THEN 0 - x ELSE x

Max0(x) == IF x < 0 THEN 0 ELSE x

RECURSIVE HashFrom(_, _)
\* the loop of scoreTiebreaker: hash = ((hash << 5) - hash) + charCodeAt(i)
HashFrom(hash, rest) ==
  IF Len(rest) = 0 THEN hash
  ELSE HashFrom(HashStep(hash, Head(rest)), Tail(rest))

scoreTiebreaker(peerId) == Abs(JsRem(HashFrom(0, peerId), 100))

\* stats.get(peerId) / capabilities.get(peerId) returning undefined
NoStats == [has |-> FALSE, latency |-> 0, packetLoss |-> 0, jitter |-> 0, bandwidth |-> 0]
NoCap == [has |-> FALSE, natType |-> "unknown", platform |-> "unknown", bandwidth |-> 0]

\* no HostScore computed yet
NoScore == [peerId |-> NoPeer, bandwidth |-> 0, totalScore |-> 0]

\* connection quality * 10.  packetLoss is carried in thousandths (0..1000)
scoreConnectionQuality(stats) ==
  IF ~stats.has THEN 500
  ELSE LET latency2 == Max0(200 - stats.latency)
           loss     == Max0(100 - 2 * stats.packetLoss)
           jitter   == Max0(100 - stats.jitter)
       IN 2 * latency2 + 4 * loss + 2 * jitter

scoreNATType(natType) ==
  CASE natType = "open" -> 100
    [] natType = "moderate" -> 60
    [] natType = "strict" -> 20
    [] OTHER -> 50

\* bandwidth score * 19.  A bandwidth of 0 stands for undefined or 0: both
\* are falsy in `if (!bandwidth) return 50`
scoreBandwidth(bandwidth) ==
  IF bandwidth = 0 THEN 950
  ELSE IF bandwidth >= 2000 THEN 1900
  ELSE IF bandwidth < 100 THEN 0
  ELSE bandwidth - 100

scorePlatform(platform) ==
  CASE platform = "desktop" -> 100
    [] platform = "web" -> 60
    [] platform = "mobile" -> 40
    [] OTHER -> 50

\* capability?.bandwidth || stats?.bandwidth
BandwidthOf(stats, cap) ==
  IF cap.has /\ cap.bandwidth # 0 THEN cap.bandwidth
  ELSE IF stats.has THEN stats.bandwidth ELSE 0

\* totalScore * ScoreScale with WEIGHTS 0.35, 0.25, 0.25, 0.10, 0.05
scorePeer(peerId, stats, cap) ==
  665 * scoreConnectionQuality(stats)
  + 4750 * scoreNATType(IF cap.has THEN cap.natType ELSE "unknown")
  + 250 * scoreBandwidth(BandwidthOf(stats, cap))
  + 1900 * scorePlatform(IF cap.has THEN cap.platform ELSE "unknown")
  + 950 * scoreTiebreaker(peerId)

(***************************************************************************)
(* HostElection.electHost and shouldReplaceHost                            *)
(***************************************************************************)
\* peers.map(peerId => scorePeer(peerId, stats.get(peerId), capabilities.get(peerId)))
ScoresOf(peers, stats, caps) ==
  [i \in 1..Len(peers) |->
     [peerId |-> peers[i], totalScore |-> scorePeer(peers[i], stats[peers[i]], caps[peers[i]])]]

RECURSIVE InsertDesc(_, _)
\* x is placed behind every element that does not compare greater than it
\* under (a, b) => b.totalScore - a.totalScore; sorted is already in order
InsertDesc(sorted, x) ==
  IF Len(sorted) = 0 THEN << x >>
  ELSE IF Head(sorted).totalScore >= x.totalScore
       THEN << Head(sorted) >> \o InsertDesc(Tail(sorted), x)
       ELSE << x >> \o sorted

RECURSIVE SortDesc(_)
\* scores.sort((a, b) => b.totalScore - a.totalScore); Array.prototype.sort
\* is stable, so elements of equal score keep their input order
SortDesc(scores) ==
  IF Len(scores) = 0 THEN << >>
  ELSE InsertDesc(SortDesc(SubSeq(scores, 1, Len(scores) - 1)), scores[Len(scores)])

\* electHost returning no winner for an empty list instead of throwing
electHostNoThrow(peers, stats, caps) ==
  IF Len(peers) = 0 THEN [threw |-> FALSE, winner |-> NoPeer]
  ELSE IF Len(peers) = 1 THEN [threw |-> FALSE, winner |-> peers[1]]
  ELSE [threw |-> FALSE, winner |-> SortDesc(ScoresOf(peers, stats, caps))[1].peerId]

\* result of a call: threw is TRUE when the call ends in `throw new Error`
electHost(peers, stats, caps) ==
  IF Len(peers) = 0 THEN [threw |-> TRUE, winner |-> NoPeer]
  ELSE IF Len(peers) = 1 THEN [threw |-> FALSE, winner |-> peers[1]]
  ELSE [threw |-> FALSE, winner |-> SortDesc(ScoresOf(peers, stats, caps))[1].peerId]

\* peers.includes(x)
Includes(peers, x) == \E i \in 1..Len(peers) : peers[i] = x

\* peers.filter(p => p !== x)
FilterOut(peers, x) == SelectSeq(peers, LAMBDA p : p # x)

shouldReplaceHostGE(currentHostId, peers, stats, caps, hysteresisThreshold) ==
  IF ~Includes(peers, currentHostId)
  THEN LET e == electHost(peers, stats, caps)
       IN [threw |-> e.threw, shouldReplace |-> ~e.threw, newHostId |-> e.winner]
  ELSE LET currentHostScore == scorePeer(currentHostId, stats[currentHostId], caps[currentHostId])
           alternativePeers == FilterOut(peers, currentHostId)
       IN IF Len(alternativePeers) = 0
          THEN [threw |-> FALSE, shouldReplace |-> FALSE, newHostId |-> NoPeer]
          ELSE LET bestAlternative == electHost(alternativePeers, stats, caps).winner
                   scoreDiff == scorePeer(bestAlternative, stats[bestAlternative], caps[bestAlternative])
                                - currentHostScore
               IN IF scoreDiff >= hysteresisThreshold * ScoreScale
                  THEN [threw |-> FALSE, shouldReplace |-> TRUE, newHostId |-> bestAlternative]
                  ELSE [threw |-> FALSE, shouldReplace |-> FALSE, newHostId |-> NoPeer]

\* hysteresisThreshold is in score points; newHostId is NoPeer when the
\* returned object has no newHostId
shouldReplaceHost(currentHostId, peers, stats, caps, hysteresisThreshold) ==
  IF ~Includes(peers, currentHostId)
  THEN LET e == electHost(peers, stats, caps)
       IN [threw |-> e.threw, shouldReplace |-> ~e.threw, newHostId |-> e.winner]
  ELSE LET currentHostScore == scorePeer(currentHostId, stats[currentHostId], caps[currentHostId])
           alternativePeers == FilterOut(peers, currentHostId)
       IN IF Len(alternativePeers) = 0
          THEN [threw |-> FALSE, shouldReplace |-> FALSE, newHostId |-> NoPeer]
          ELSE LET bestAlternative == electHost(alternativePeers, stats, caps).winner
                   scoreDiff == scorePeer(bestAlternative, stats[bestAlternative], caps[bestAlternative])
                                - currentHostScore
               IN IF scoreDiff > hysteresisThreshold * ScoreScale
                  THEN [threw |-> FALSE, shouldReplace |-> TRUE, newHostId |-> bestAlternative]
                  ELSE [threw |-> FALSE, shouldReplace |-> FALSE, newHostId |-> NoPeer]

(***************************************************************************)
(* Bounds of the model                                                     *)
(***************************************************************************)
\* events handled by one node
MaxSteps == 5

\* events explored at the observed node when each event is recorded
MaxObsSteps == 4
\* link objects that are no longer in the registry but still have a pending
\* timer or an open transport
MaxDetached == 1
\* join-room and leave-room requests the relay handles
MaxRoomOps == 3
\* candidate list length in the election specification
MaxCandidates == 3
\* join-room, leave-room and disconnect events the signaling server handles
MaxSrvOps == 3
\* peer counts fed to TopologyManager directly
MaxCount == 6
\* thresholds configured on TopologyManager directly
MaxThreshold == 5

(***************************************************************************)
(* State                                                                   *)
(***************************************************************************)
AllIds == {IdA, IdB, IdC, IdD, IdE, IdF}

\* sockets, rooms and peer ids of the signaling server specification
SrvSockets == {"s1", "s2", "s3"}
SrvRoomIds == {"r1", "r2"}
SrvPeerIds == {IdA, IdB}

\* candidates of the election specification; "a" and "0m" have the same
\* tiebreaker score
ElectIds == {IdA, Id0m, IdM}

\* this.topologyManager = new TopologyManager({ meshThreshold: 4 })
MeshThreshold == 4
\* const maxRetries = isHostConnection ? 3 : 1
MaxRetriesHost == 3
MaxRetriesPeer == 1
\* hysteresisThreshold: number = 15
DefaultHysteresis == 15

VARIABLES
  \* MeshConnection fields, one value per node (the node's own peerId is the index)
  peerUsernames,        \* keys of the peerUsernames map
  peers,                \* the peers map: peerId -> PeerConnectionInfo (NoLink: no entry)
  detached,             \* PeerConnectionInfo objects no longer in the map whose
                        \* transport is open or whose retry timer is pending
  currentHostId,
  isHost,
  enableHostTopology,
  hostForwarderActive,  \* HostForwarder.isActive
  incomingStreams,      \* HostForwarder.incomingStreams: the peers in the mix
  \* TopologyManager fields
  currentTopology,
  peerCount,
  meshThreshold,
  \* observations of the last handled event
  lastReturn,           \* value returned by the last updatePeerCount
  topologyEvents,       \* TopologyChangeEvents passed to the handler
  collapseClosed,       \* peers whose links closeNonHostConnections destroyed
  collapseHostLive,     \* the host link was connected and open when it did
  created,              \* links createPeerConnection built: peerId and initiator
  becameHostCalls,      \* calls of onBecameHostHandler
  forwarderStarts,      \* runs of HostForwarder.start that set up the mixer
  prevHostId,           \* currentHostId before the event
  \* history
  retryRuns,            \* retry re-creations per peer since its link last connected
  steps,                \* events handled so far
  \* environment of one node: the room as its socket has been told
  present,
  anonymous,            \* peers that joined without a username
  active,               \* the node whose events are explored
  observing,            \* whether the last event and its links are recorded
  lastEvent,            \* the event that node handled last
  \* signaling server
  roomPeers,            \* keys of room.peers for the one room
  queue,                \* per socket: messages emitted by the server, in order
  roomOps,              \* join-room and leave-room requests handled
  \* signaling server, socket by socket
  srvRooms,             \* rooms: roomId -> room.peers in insertion order
  srvMembers,           \* socket.io rooms: roomId -> sockets that joined it
  srvConnected,         \* sockets whose connection is open
  srvRegistered,        \* << socket, roomId, peerId >> of every join-room handled
  srvEmits,             \* what the last handler delivered, and to which socket
  srvOps,               \* join-room, leave-room and disconnect events handled
  \* the renderer: session-level reconnect
  reconnectAttempts, isReconnecting,
  reconnectData,        \* TRUE when not null
  reconnectTimeout,     \* "none" for null, else the timer is "pending" or has "fired"
  reconnectDelay,       \* seconds given to the last setTimeout
  connectPc,            \* who awaits connect(): "idle", "user" or "reconnect"
  socketUp,             \* the signaling socket is connected
  connected,
  \* the renderer and its AudioManager: mute and deafen
  audioManager,         \* TRUE when not null
  isMuted, isDeafened,  \* the renderer's flags
  muted, deafened,      \* the AudioManager's flags
  mutedBeforeDeafen,    \* isMuted when deafen was last switched on
  \* HostElection calls
  hePeers, heStats, heCaps, heCurrent, heResult, heReplace, heCall,
  heScore               \* the HostScore returned by scorePeer

nodeVars == << peerUsernames, peers, detached, currentHostId, isHost,
               enableHostTopology, hostForwarderActive, incomingStreams,
               becameHostCalls, forwarderStarts, currentTopology,
               peerCount, meshThreshold, lastReturn, topologyEvents,
               collapseClosed, collapseHostLive, created, prevHostId, retryRuns >>
envVars == << present, anonymous, active, observing, lastEvent, steps >>
sigVars == << srvRooms, srvMembers, srvConnected, srvRegistered, srvEmits, srvOps >>
serverVars == << roomPeers, queue, roomOps, sigVars >>
heVars == << hePeers, heStats, heCaps, heCurrent, heResult, heReplace, heCall, heScore >>
rcVars == << reconnectAttempts, isReconnecting, reconnectData, reconnectTimeout,
            reconnectDelay, connectPc, socketUp, connected >>
auVars == << audioManager, isMuted, isDeafened, muted, deafened, mutedBeforeDeafen >>
appVars == << rcVars, auVars >>
restVars == << nodeVars, envVars, serverVars, heVars >>
vars == << nodeVars, envVars, serverVars, heVars, appVars >>

\* no entry in the peers map
NoLink == [st |-> "none", initiator |-> FALSE, connected |-> FALSE,
           retryCount |-> 0, timer |-> FALSE, stream |-> FALSE]

\* peerInfo as built by createPeerConnection: connected: false, retryCount: 0
NewLink(initiator) == [st |-> "open", initiator |-> initiator, connected |-> FALSE,
                       retryCount |-> 0, timer |-> FALSE, stream |-> FALSE]

\* a PeerConnectionInfo that left the map, with the peerId its closures hold
AsDetached(p, l) == [peerId |-> p, st |-> l.st, initiator |-> l.initiator,
                     connected |-> l.connected, retryCount |-> l.retryCount,
                     timer |-> l.timer, stream |-> l.stream]

\* the object can still run a handler: its transport can emit, or its timer can fire
CanFire(l) == l.st = "open" \/ l.timer

\* the fields of node n, with the per-event observations cleared
St(n) ==
  [self |-> n,
   peerUsernames |-> peerUsernames[n], peers |-> peers[n], detached |-> detached[n],
   currentHostId |-> currentHostId[n], isHost |-> isHost[n],
   enableHostTopology |-> enableHostTopology[n],
   hostForwarderActive |-> hostForwarderActive[n],
   incomingStreams |-> incomingStreams[n],
   currentTopology |-> currentTopology[n], peerCount |-> peerCount[n],
   meshThreshold |-> meshThreshold[n],
   lastReturn |-> "none", topologyEvents |-> << >>,
   collapseClosed |-> {}, collapseHostLive |-> TRUE, created |-> {},
   becameHostCalls |-> 0, forwarderStarts |-> 0,
   retryRuns |-> retryRuns[n]]

(***************************************************************************)
(* MeshConnection: link registry                                           *)
(***************************************************************************)
\* this.peers.has(p)
Has(s, p) == s.peers[p].st # "none"

\* this.peers.set(peerId, peerInfo) over a new SimplePeer.  An entry already
\* in the map is overwritten without destroy(): the old object leaves the
\* map with its transport and its timer as they are
createPeerConnection(s, p, initiator) ==
  LET old == s.peers[p]
      kept == IF CanFire(old) THEN {AsDetached(p, old)} ELSE {}
  IN [s EXCEPT !.peers[p] = NewLink(initiator), !.detached = @ \cup kept,
               !.created = @ \cup {[peerId |-> p, initiator |-> initiator]}]

\* clearTimeout(retryTimeout); connection.destroy(); peers.delete(peerId)
removePeerConnection(s, p) ==
  IF Has(s, p) THEN [s EXCEPT !.peers[p] = NoLink] ELSE s

\* connection.destroy() on a link: an open transport becomes destroyed
Destroyed(l) == [l EXCEPT !.st = IF @ = "open" THEN "destroyed" ELSE @]

\* peers.forEach: destroy() and delete every entry but the host's; the retry
\* timeout of a deleted entry is not cleared.  hostLive records whether the
\* host link was connected and open at the call
closeNonHostConnections(s, hostPeerId, hostLive) ==
  LET closed == {p \in DOMAIN s.peers : p # hostPeerId /\ Has(s, p)}
      kept == {AsDetached(p, Destroyed(s.peers[p])) : p \in {q \in closed : s.peers[q].timer}}
  IN [s EXCEPT !.peers = [p \in DOMAIN s.peers |-> IF p \in closed THEN NoLink ELSE s.peers[p]],
               !.detached = @ \cup kept,
               !.collapseClosed = @ \cup closed,
               !.collapseHostLive = IF closed = {} THEN @ ELSE @ /\ hostLive]

RECURSIVE createEach(_, _)
\* forEach(... createPeerConnection(peerId, true, username))
createEach(s, S) ==
  IF S = {} THEN s
  ELSE LET p == CHOOSE x \in S : TRUE
       IN createEach(createPeerConnection(s, p, TRUE), S \ {p})

(***************************************************************************)
(* MeshConnection: roles                                                   *)
(***************************************************************************)
\* HostForwarder.start: a second start of an active forwarder does nothing
HostForwarder_start(s) ==
  IF s.hostForwarderActive THEN s
  ELSE [s EXCEPT !.hostForwarderActive = TRUE, !.forwarderStarts = @ + 1]

\* HostForwarder.stop: the sources and the streams are dropped
HostForwarder_stop(s) ==
  IF ~s.hostForwarderActive THEN s
  ELSE [s EXCEPT !.hostForwarderActive = FALSE, !.incomingStreams = {}]

\* HostForwarder.addPeerStream: removePeerStream(peerId) first, then the
\* stream is stored under peerId, so a peer is in the mix at most once
HostForwarder_addPeerStream(s, peerId) ==
  IF ~s.hostForwarderActive THEN s
  ELSE [s EXCEPT !.incomingStreams = (@ \ {peerId}) \cup {peerId}]

\* this.hostForwarder.stop(); this.isHost = false
StopHost(s) == [HostForwarder_stop(s) EXCEPT !.isHost = FALSE]

\* the peers of the registry whose peerInfo holds a stream
WithStream(s) == {p \in DOMAIN s.peers : Has(s, p) /\ s.peers[p].stream}

RECURSIVE addEach(_, _)
addEach(s, S) ==
  IF S = {} THEN s
  ELSE LET p == CHOOSE q \in S : \A r \in S : q = r \/ StrLess(q, r)
       IN addEach(HostForwarder_addPeerStream(s, p), S \ {p})

\* HostForwarder.setMixingMode while active: stop(), start(localStream), then
\* the streams of a copy of incomingStreams taken after stop() cleared it are
\* added again; the mode itself is configuration the mix does not depend on
HostForwarder_setMixingMode(s) ==
  IF ~s.hostForwarderActive THEN s
  ELSE LET s1 == HostForwarder_start(HostForwarder_stop(s))
           streams == s1.incomingStreams
           s2 == [s1 EXCEPT !.incomingStreams = {}]
       IN addEach(s2, streams)

\* becomeHost without the notification of the observer
becomeHostSilent(s) ==
  LET s1 == [s EXCEPT !.isHost = TRUE]
      s2 == createEach(s1, {p \in s1.peerUsernames : ~Has(s1, p)})
      s3 == HostForwarder_start(s2)
  IN addEach(s3, WithStream(s3))

becomeHost(s) ==
  LET s1 == [s EXCEPT !.isHost = TRUE]
      s2 == createEach(s1, {p \in s1.peerUsernames : ~Has(s1, p)})
      s3 == HostForwarder_start(s2)
      s4 == addEach(s3, WithStream(s3))
  IN [s4 EXCEPT !.becameHostCalls = @ + 1]

connectToHost(s, hostPeerId) ==
  IF ~Has(s, hostPeerId) THEN createPeerConnection(s, hostPeerId, TRUE)
  ELSE IF s.peers[hostPeerId].connected
       THEN closeNonHostConnections(s, hostPeerId, s.peers[hostPeerId].st = "open")
       ELSE s

\* dissolveHostTopology without re-opening the direct links
dissolveHostTopologyNoReopen(s) ==
  LET s1 == IF s.isHost THEN StopHost(s) ELSE s
  IN [s1 EXCEPT !.currentHostId = NoPeer]

dissolveHostTopology(s) ==
  LET s1 == IF s.isHost THEN StopHost(s) ELSE s
      s2 == [s1 EXCEPT !.currentHostId = NoPeer]
  IN createEach(s2, {p \in s2.peerUsernames : p # s2.self /\ ~Has(s2, p)})

\* a variant that re-runs the election although the current host is present
MeshConnection_electHostAlways(s) ==
  LET allPeerIds == {s.self} \cup s.peerUsernames
      electedHostId == SortedFirst(allPeerIds)
      s1 == IF s.currentHostId # NoPeer /\ s.currentHostId # electedHostId /\ s.isHost
            THEN StopHost(s) ELSE s
      s2 == [s1 EXCEPT !.currentHostId = electedHostId]
  IN IF electedHostId = s.self THEN becomeHost(s2) ELSE connectToHost(s2, electedHostId)

\* a variant that elects the last id in sort order
MeshConnection_electHostLast(s) ==
  LET allPeerIds == {s.self} \cup s.peerUsernames
  IN IF s.currentHostId # NoPeer /\ s.currentHostId \in allPeerIds
     THEN IF s.currentHostId = s.self
          THEN IF ~s.isHost THEN becomeHost(s) ELSE s
          ELSE connectToHost(IF s.isHost THEN StopHost(s) ELSE s, s.currentHostId)
     ELSE LET electedHostId == CHOOSE x \in allPeerIds : \A y \in allPeerIds : ~StrLess(x, y)
              s1 == IF s.currentHostId # NoPeer /\ s.currentHostId # electedHostId /\ s.isHost
                    THEN StopHost(s) ELSE s
              s2 == [s1 EXCEPT !.currentHostId = electedHostId]
          IN IF electedHostId = s.self THEN becomeHost(s2) ELSE connectToHost(s2, electedHostId)

\* MeshConnection.electHost (HostElection.electHost is electHost above)
MeshConnection_electHost(s) ==
  LET allPeerIds == {s.self} \cup s.peerUsernames
  IN IF s.currentHostId # NoPeer /\ s.currentHostId \in allPeerIds
     THEN IF s.currentHostId = s.self
          THEN IF ~s.isHost THEN becomeHost(s) ELSE s
          ELSE connectToHost(IF s.isHost THEN StopHost(s) ELSE s, s.currentHostId)
     ELSE LET electedHostId == SortedFirst(allPeerIds)
              s1 == IF s.currentHostId # NoPeer /\ s.currentHostId # electedHostId /\ s.isHost
                    THEN StopHost(s) ELSE s
              s2 == [s1 EXCEPT !.currentHostId = electedHostId]
          IN IF electedHostId = s.self THEN becomeHost(s2) ELSE connectToHost(s2, electedHostId)

handleTopologyChange(s, newTopology) ==
  IF ~s.enableHostTopology THEN s
  ELSE IF newTopology = "host" THEN MeshConnection_electHost(s)
  ELSE dissolveHostTopology(s)

(***************************************************************************)
(* TopologyManager, with the handler the MeshConnection constructor sets   *)
(***************************************************************************)

\* updatePeerCount returning the derived mode without storing it
updatePeerCountNoStore(s, count) ==
  [s EXCEPT !.peerCount = count,
            !.lastReturn = determineTopology(count, s.meshThreshold)]

\* updatePeerCount notifying on every call
updatePeerCountAlways(s, count) ==
  LET oldTopology == s.currentTopology
      newTopology == determineTopology(count, s.meshThreshold)
      s1 == [s EXCEPT !.peerCount = count, !.lastReturn = newTopology]
  IN handleTopologyChange(
       [s1 EXCEPT !.currentTopology = newTopology,
                  !.topologyEvents = Append(@, [oldTopology |-> oldTopology,
                                                newTopology |-> newTopology,
                                                peerCount |-> count])],
       newTopology)

updatePeerCount(s, count) ==
  LET oldTopology == s.currentTopology
      newTopology == determineTopology(count, s.meshThreshold)
      s1 == [s EXCEPT !.peerCount = count, !.lastReturn = newTopology]
  IN IF newTopology # oldTopology
     THEN handleTopologyChange(
            [s1 EXCEPT !.currentTopology = newTopology,
                       !.topologyEvents = Append(@, [oldTopology |-> oldTopology,
                                                     newTopology |-> newTopology,
                                                     peerCount |-> count])],
            newTopology)
     ELSE s1

\* forceTopology storing the mode without the change-event path
forceTopologyQuiet(s, topology) == [s EXCEPT !.currentTopology = topology]

forceTopology(s, topology) ==
  IF topology # s.currentTopology
  THEN handleTopologyChange(
         [s EXCEPT !.currentTopology = topology,
                   !.topologyEvents = Append(@, [oldTopology |-> s.currentTopology,
                                                 newTopology |-> topology,
                                                 peerCount |-> s.peerCount])],
         topology)
  ELSE s

updateConfig(s, threshold) ==
  updatePeerCount([s EXCEPT !.meshThreshold = threshold], s.peerCount)

\* MeshConnection.updateTopology
updateTopology(s) == updatePeerCount(s, Cardinality(s.peerUsernames))

(***************************************************************************)
(* MeshConnection: socket listeners                                        *)
(***************************************************************************)
\* the peer sent a username with join-room
HasUsername(p) == p \notin anonymous

\* socket.on('room-joined'): roster is the set of peerIds in data.peers
onRoomJoined(s, roster, named) ==
  LET s1 == [s EXCEPT !.peerUsernames = @ \cup named]
  IN updateTopology(createEach(s1, roster))

\* socket.on('peer-joined')
onPeerJoined(s, p, username) ==
  updateTopology(IF username THEN [s EXCEPT !.peerUsernames = @ \cup {p}] ELSE s)

\* socket.on('peer-left')
\* peer-left without the re-election of a departed host
onPeerLeftNoReelect(s, p) ==
  LET s1 == removePeerConnection(s, p)
  IN updateTopology([s1 EXCEPT !.peerUsernames = @ \ {p}])

onPeerLeft(s, p) ==
  LET s1 == removePeerConnection(s, p)
      s2 == updateTopology([s1 EXCEPT !.peerUsernames = @ \ {p}])
  IN IF p = s2.currentHostId THEN MeshConnection_electHost(s2) ELSE s2

\* socket.on('signal')
onSignal(s, fromPeerId) ==
  IF ~Has(s, fromPeerId) THEN createPeerConnection(s, fromPeerId, FALSE) ELSE s

(***************************************************************************)
(* MeshConnection: transport callbacks of one PeerConnectionInfo.  The     *)
(* object is either the map entry of its peer (InMap) or a detached one.   *)
(***************************************************************************)

\* after peerInfo.connected = true, without the collapse to the host link
AfterConnectNoCollapse(s, peerId) ==
  updateTopology([s EXCEPT !.retryRuns[peerId] = 0])

\* after peerInfo.connected = true
AfterConnect(s, peerId) ==
  LET s1 == [s EXCEPT !.retryRuns[peerId] = 0]
      s2 == IF s1.currentHostId = peerId /\ ~s1.isHost
            THEN closeNonHostConnections(s1, peerId, TRUE) ELSE s1
  IN updateTopology(s2)

\* peer.on('connect') of the map entry of p
onConnectInMap(s, p) == AfterConnect([s EXCEPT !.peers[p].connected = TRUE], p)

\* peer.on('connect') of a detached object d
onConnectDetached(s, d) ==
  AfterConnect([s EXCEPT !.detached = (@ \ {d}) \cup {[d EXCEPT !.connected = TRUE]}], d.peerId)

\* after peerInfo.stream = stream: the host hands the stream to the forwarder
AfterStream(s, peerId) ==
  IF s.isHost THEN HostForwarder_addPeerStream(s, peerId) ELSE s

\* peer.on('stream') of the map entry of p
onStreamInMap(s, p) == AfterStream([s EXCEPT !.peers[p].stream = TRUE], p)

\* peer.on('stream') of a detached object d
onStreamDetached(s, d) ==
  AfterStream([s EXCEPT !.detached = (@ \ {d}) \cup {[d EXCEPT !.stream = TRUE]}], d.peerId)

\* const maxRetries = isHostConnection ? 3 : 1
maxRetries(s, peerId) ==
  IF peerId = s.currentHostId /\ ~s.isHost THEN MaxRetriesHost ELSE MaxRetriesPeer

\* peer.on('close') of the map entry of p
onCloseInMap(s, p) ==
  LET l == s.peers[p]
  IN IF l.retryCount < maxRetries(s, p)
     THEN [s EXCEPT !.peers[p] = [l EXCEPT !.st = "closed", !.retryCount = @ + 1, !.timer = TRUE]]
     ELSE removePeerConnection([s EXCEPT !.peers[p].st = "closed"], p)

\* peer.on('close') of a detached object d: removePeerConnection(peerId)
\* then acts on whatever entry the map holds for that peer
onCloseDetached(s, d) ==
  IF d.retryCount < maxRetries(s, d.peerId)
  THEN [s EXCEPT !.detached = (@ \ {d}) \cup
                   {[d EXCEPT !.st = "closed", !.retryCount = @ + 1, !.timer = TRUE]}]
  ELSE removePeerConnection([s EXCEPT !.detached = @ \ {d}], d.peerId)

\* body of the setTimeout callback for peerId
RetryBody(s, peerId) ==
  IF peerId \in s.peerUsernames
  THEN LET s1 == createPeerConnection(removePeerConnection(s, peerId), peerId, TRUE)
       IN [s1 EXCEPT !.retryRuns[peerId] = @ + 1]
  ELSE s

\* the retry timeout of the map entry of p fires
onRetryTimerInMap(s, p) == RetryBody([s EXCEPT !.peers[p].timer = FALSE], p)

\* the retry timeout of a detached object d fires
onRetryTimerDetached(s, d) ==
  LET d1 == [d EXCEPT !.timer = FALSE]
      rest == IF CanFire(d1) THEN {d1} ELSE {}
  IN RetryBody([s EXCEPT !.detached = (@ \ {d}) \cup rest], d.peerId)

(***************************************************************************)
(* MeshConnection: public calls                                            *)
(***************************************************************************)
disconnect(s) ==
  LET s1 == IF s.isHost THEN StopHost(s) ELSE s
  IN [s1 EXCEPT !.currentHostId = NoPeer,
                !.peers = [p \in DOMAIN s.peers |-> NoLink],
                !.peerUsernames = {}]

setEnableHostTopology(s, enable) ==
  LET s1 == [s EXCEPT !.enableHostTopology = enable]
  IN IF ~enable /\ s1.isHost THEN StopHost(s1) ELSE s1

(***************************************************************************)
(* Initial values                                                          *)
(***************************************************************************)
\* every node as its constructor leaves it
NodeInit ==
  /\ peerUsernames = [n \in AllIds |-> {}]
  /\ peers = [n \in AllIds |-> [p \in AllIds |-> NoLink]]
  /\ detached = [n \in AllIds |-> {}]
  /\ currentHostId = [n \in AllIds |-> NoPeer]
  /\ isHost = [n \in AllIds |-> FALSE]
  /\ enableHostTopology = [n \in AllIds |-> TRUE]
  /\ hostForwarderActive = [n \in AllIds |-> FALSE]
  /\ incomingStreams = [n \in AllIds |-> {}]
  /\ becameHostCalls = [n \in AllIds |-> 0]
  /\ forwarderStarts = [n \in AllIds |-> 0]
  /\ currentTopology = [n \in AllIds |-> "mesh"]
  /\ peerCount = [n \in AllIds |-> 0]
  /\ meshThreshold = [n \in AllIds |-> MeshThreshold]
  /\ lastReturn = [n \in AllIds |-> "none"]
  /\ topologyEvents = [n \in AllIds |-> << >>]
  /\ collapseClosed = [n \in AllIds |-> {}]
  /\ collapseHostLive = [n \in AllIds |-> TRUE]
  /\ created = [n \in AllIds |-> {}]
  /\ prevHostId = [n \in AllIds |-> NoPeer]
  /\ retryRuns = [n \in AllIds |-> [p \in AllIds |-> 0]]

\* no room on the server, nothing emitted
ServerInit ==
  /\ roomPeers = {}
  /\ queue = [n \in AllIds |-> << >>]
  /\ roomOps = 0
  /\ srvRooms = [r \in SrvRoomIds |-> << >>]
  /\ srvMembers = [r \in SrvRoomIds |-> {}]
  /\ srvConnected = SrvSockets
  /\ srvRegistered = {}
  /\ srvEmits = {}
  /\ srvOps = 0

\* the renderer as its module leaves it
AppInit ==
  /\ reconnectAttempts = 0
  /\ isReconnecting = FALSE
  /\ reconnectData = FALSE
  /\ reconnectTimeout = "none"
  /\ reconnectDelay = 0
  /\ connectPc = "idle"
  /\ socketUp = FALSE
  /\ connected = FALSE
  /\ audioManager = FALSE
  /\ isMuted = FALSE
  /\ isDeafened = FALSE
  /\ muted = FALSE
  /\ deafened = FALSE
  /\ mutedBeforeDeafen = FALSE

\* no HostElection call made
ElectionIdle ==
  /\ hePeers = << >>
  /\ heStats = [p \in ElectIds |-> NoStats]
  /\ heCaps = [p \in ElectIds |-> NoCap]
  /\ heCurrent = NoPeer
  /\ heResult = [threw |-> FALSE, winner |-> NoPeer]
  /\ heReplace = [threw |-> FALSE, shouldReplace |-> FALSE, newHostId |-> NoPeer]
  /\ heCall = "none"
  /\ heScore = NoScore

(***************************************************************************)
(* One node and the events its socket and its links deliver                *)
(***************************************************************************)
\* the fields of node n become those of s
Commit(n, result) ==
  \E s \in {result} :
    /\ Cardinality(s.detached) <= MaxDetached
    /\ peerUsernames' = [peerUsernames EXCEPT ![n] = s.peerUsernames]
    /\ peers' = [peers EXCEPT ![n] = s.peers]
    /\ detached' = [detached EXCEPT ![n] = s.detached]
    /\ currentHostId' = [currentHostId EXCEPT ![n] = s.currentHostId]
    /\ isHost' = [isHost EXCEPT ![n] = s.isHost]
    /\ enableHostTopology' = [enableHostTopology EXCEPT ![n] = s.enableHostTopology]
    /\ hostForwarderActive' = [hostForwarderActive EXCEPT ![n] = s.hostForwarderActive]
    /\ incomingStreams' = [incomingStreams EXCEPT ![n] = s.incomingStreams]
    /\ becameHostCalls' = [becameHostCalls EXCEPT ![n] = IF observing THEN s.becameHostCalls ELSE 0]
    /\ forwarderStarts' = [forwarderStarts EXCEPT ![n] = IF observing THEN s.forwarderStarts ELSE 0]
    /\ currentTopology' = [currentTopology EXCEPT ![n] = s.currentTopology]
    /\ peerCount' = [peerCount EXCEPT ![n] = s.peerCount]
    /\ meshThreshold' = [meshThreshold EXCEPT ![n] = s.meshThreshold]
    /\ lastReturn' = [lastReturn EXCEPT ![n] = s.lastReturn]
    /\ topologyEvents' = [topologyEvents EXCEPT ![n] = s.topologyEvents]
    /\ collapseClosed' = [collapseClosed EXCEPT ![n] = s.collapseClosed]
    /\ collapseHostLive' = [collapseHostLive EXCEPT ![n] = s.collapseHostLive]
    /\ created' = [created EXCEPT ![n] = IF observing THEN s.created ELSE {}]
    /\ prevHostId' = [prevHostId EXCEPT ![n] = currentHostId[n]]
    /\ retryRuns' = [retryRuns EXCEPT ![n] = s.retryRuns]

\* no event handled yet
NoEvent == [type |-> "none", peer |-> NoPeer]

\* one more event of the budget of node n.  The type tells the socket events
\* room-joined, peer-joined and peer-left (with the peer they are about) from
\* signal, from the events of a link and from the public calls
Tick(n, type, peer) ==
  /\ steps[n] < (IF observing THEN MaxObsSteps ELSE MaxSteps)
  /\ steps' = [steps EXCEPT ![n] = @ + 1]
  /\ lastEvent' = IF observing THEN [type |-> type, peer |-> peer] ELSE NoEvent

\* room-joined arrives.  The first roster is any set of other peers; a
\* later delivery carries the room as the socket knows it
RoomJoined(n, roster, named) ==
  /\ roster \subseteq AllIds \ {n} /\ named \subseteq roster
  /\ n \in present[n] => (roster = present[n] \ {n} /\ named = roster \ anonymous)
  /\ Tick(n, "room-joined", NoPeer)
  /\ Commit(n, onRoomJoined(St(n), roster, named))
  /\ present' = [present EXCEPT ![n] = roster \cup {n}]
  /\ anonymous' = (anonymous \ roster) \cup (roster \ named)
  /\ UNCHANGED << active, observing, serverVars, heVars, appVars >>

PeerJoined(n, p, username) ==
  /\ n \in present[n]
  /\ p \in AllIds \ present[n]
  /\ Tick(n, "peer-joined", p)
  /\ Commit(n, onPeerJoined(St(n), p, username))
  /\ present' = [present EXCEPT ![n] = @ \cup {p}]
  /\ anonymous' = IF username THEN anonymous \ {p} ELSE anonymous \cup {p}
  /\ UNCHANGED << active, observing, serverVars, heVars, appVars >>

PeerLeft(n, p) ==
  /\ n \in present[n]
  /\ p \in present[n] \ {n}
  /\ Tick(n, "peer-left", p)
  /\ Commit(n, onPeerLeft(St(n), p))
  /\ present' = [present EXCEPT ![n] = @ \ {p}]
  /\ anonymous' = anonymous \ {p}
  /\ UNCHANGED << active, observing, serverVars, heVars, appVars >>

\* the relay forwards a signal of a room member
Signal(n, p) ==
  /\ n \in present[n]
  /\ p \in present[n] \ {n}
  /\ Tick(n, "signal", NoPeer)
  /\ Commit(n, onSignal(St(n), p))
  /\ UNCHANGED << present, anonymous, active, observing, serverVars, heVars, appVars >>

ConnectInMap(n, p) ==
  /\ peers[n][p].st = "open" /\ ~peers[n][p].connected
  /\ Tick(n, "link", NoPeer)
  /\ Commit(n, onConnectInMap(St(n), p))
  /\ UNCHANGED << present, anonymous, active, observing, serverVars, heVars, appVars >>

ConnectDetached(n, d) ==
  /\ d \in detached[n] /\ d.st = "open" /\ ~d.connected
  /\ Tick(n, "link", NoPeer)
  /\ Commit(n, onConnectDetached(St(n), d))
  /\ UNCHANGED << present, anonymous, active, observing, serverVars, heVars, appVars >>

StreamInMap(n, p) ==
  /\ peers[n][p].st = "open" /\ ~peers[n][p].stream
  /\ Tick(n, "link", NoPeer)
  /\ Commit(n, onStreamInMap(St(n), p))
  /\ UNCHANGED << present, anonymous, active, observing, serverVars, heVars, appVars >>

StreamDetached(n, d) ==
  /\ d \in detached[n] /\ d.st = "open" /\ ~d.stream
  /\ Tick(n, "link", NoPeer)
  /\ Commit(n, onStreamDetached(St(n), d))
  /\ UNCHANGED << present, anonymous, active, observing, serverVars, heVars, appVars >>

CloseInMap(n, p) ==
  /\ peers[n][p].st = "open"
  /\ Tick(n, "link", NoPeer)
  /\ Commit(n, onCloseInMap(St(n), p))
  /\ UNCHANGED << present, anonymous, active, observing, serverVars, heVars, appVars >>

CloseDetached(n, d) ==
  /\ d \in detached[n] /\ d.st = "open"
  /\ Tick(n, "link", NoPeer)
  /\ Commit(n, onCloseDetached(St(n), d))
  /\ UNCHANGED << present, anonymous, active, observing, serverVars, heVars, appVars >>

RetryTimerInMap(n, p) ==
  /\ peers[n][p].timer
  /\ Tick(n, "link", NoPeer)
  /\ Commit(n, onRetryTimerInMap(St(n), p))
  /\ UNCHANGED << present, anonymous, active, observing, serverVars, heVars, appVars >>

RetryTimerDetached(n, d) ==
  /\ d \in detached[n] /\ d.timer
  /\ Tick(n, "link", NoPeer)
  /\ Commit(n, onRetryTimerDetached(St(n), d))
  /\ UNCHANGED << present, anonymous, active, observing, serverVars, heVars, appVars >>

\* disconnect() emits leave-room: the socket is told nothing more
Disconnect(n) ==
  /\ n \in present[n]
  /\ Tick(n, "call", NoPeer)
  /\ Commit(n, disconnect(St(n)))
  /\ present' = [present EXCEPT ![n] = {}]
  /\ UNCHANGED << anonymous, active, observing, serverVars, heVars, appVars >>

SetEnableHostTopology(n, enable) ==
  /\ enable # enableHostTopology[n]
  /\ Tick(n, "call", NoPeer)
  /\ Commit(n, setEnableHostTopology(St(n), enable))
  /\ UNCHANGED << present, anonymous, active, observing, serverVars, heVars, appVars >>

\* The rosters of a first room-joined.  The observed node is "b": its
\* handlers compare the ids above its own only with "b" and with "a", so
\* those peers are taken in id order
Rosters ==
  {R \in SUBSET (AllIds \ {IdB}) :
     \A p \in R : \A q \in AllIds : (StrLess(IdB, q) /\ StrLess(q, p)) => q \in R}

Init ==
  /\ AppInit
  /\ NodeInit /\ ServerInit /\ ElectionIdle
  /\ present = [n \in AllIds |-> {}]
  /\ anonymous = {}
  /\ active = IdB
  /\ steps = [n \in AllIds |-> 0]
  /\ observing = FALSE
  /\ lastEvent = NoEvent

Next ==
  \/ \E roster \in Rosters \cup {present[active] \ {active}} :
       RoomJoined(active, roster, roster \ anonymous)
  \/ \E p \in AllIds : PeerJoined(active, p, TRUE)
  \/ \E p \in AllIds : PeerLeft(active, p)
  \/ \E p \in AllIds : Signal(active, p)
  \/ \E p \in AllIds : ConnectInMap(active, p)
  \/ \E d \in detached[active] : ConnectDetached(active, d)
  \/ \E p \in AllIds : CloseInMap(active, p)
  \/ \E d \in detached[active] : CloseDetached(active, d)
  \/ \E p \in AllIds : RetryTimerInMap(active, p)
  \/ \E d \in detached[active] : RetryTimerDetached(active, d)
  \/ Disconnect(active)
  \/ \E enable \in BOOLEAN : SetEnableHostTopology(active, enable)

Spec == Init /\ [][Next]_vars

(***************************************************************************)
(* The same node with every event recorded: which event was handled last,  *)
(* and which links it created. A peer may have joined without a username.  *)
(***************************************************************************)
InitObs ==
  /\ AppInit
  /\ NodeInit /\ ServerInit /\ ElectionIdle
  /\ present = [n \in AllIds |-> {}]
  /\ anonymous = {}
  /\ active = IdB
  /\ steps = [n \in AllIds |-> 0]
  /\ observing = TRUE
  /\ lastEvent = NoEvent

\* the peers that may join without a username
MayBeUnnamed == {IdF}

\* the events of Spec, the arrival of peers without a username, and the
\* media streams the links deliver
NextObs ==
  \/ Next
  \/ \E roster \in Rosters : \E p \in roster \cap MayBeUnnamed :
       RoomJoined(active, roster, roster \ {p})
  \/ \E p \in MayBeUnnamed : PeerJoined(active, p, FALSE)
  \/ \E p \in AllIds : StreamInMap(active, p)
  \/ \E d \in detached[active] : StreamDetached(active, d)

SpecObs == InitObs /\ [][NextObs]_vars

(***************************************************************************)
(* TopologyManager called directly                                         *)
(***************************************************************************)
TMUpdatePeerCount(n, count) ==
  /\ Commit(n, updatePeerCount(St(n), count))
  /\ UNCHANGED << envVars, serverVars, heVars, appVars >>

TMForceTopology(n, topology) ==
  /\ Commit(n, forceTopology(St(n), topology))
  /\ UNCHANGED << envVars, serverVars, heVars, appVars >>

TMUpdateConfig(n, threshold) ==
  /\ Commit(n, updateConfig(St(n), threshold))
  /\ UNCHANGED << envVars, serverVars, heVars, appVars >>

\* new TopologyManager({ meshThreshold }) for any threshold
InitTopo ==
  /\ AppInit
  /\ NodeInit /\ ServerInit /\ ElectionIdle
  /\ present = [n \in AllIds |-> {}]
  /\ anonymous = {}
  /\ active = IdA
  /\ steps = [n \in AllIds |-> 0]
  /\ observing = FALSE
  /\ lastEvent = NoEvent

NextTopo ==
  \/ \E count \in 0..MaxCount : TMUpdatePeerCount(active, count)
  \/ \E topology \in {"mesh", "host"} : TMForceTopology(active, topology)
  \/ \E threshold \in 1..MaxThreshold : TMUpdateConfig(active, threshold)

SpecTopo == InitTopo /\ [][NextTopo]_vars

(***************************************************************************)
(* HostElection called on bounded inputs                                   *)
(***************************************************************************)
\* A of the example scenario: lat=20, loss=0, jitter=2, bw=3000
GoodStats == [has |-> TRUE, latency |-> 20, packetLoss |-> 0, jitter |-> 2, bandwidth |-> 3000]
CapOpenDesktop == [has |-> TRUE, natType |-> "open", platform |-> "desktop", bandwidth |-> 3000]
CapModerateWeb == [has |-> TRUE, natType |-> "moderate", platform |-> "web", bandwidth |-> 3000]

StatsChoices == {NoStats, GoodStats}
CapChoices == {NoCap, CapOpenDesktop, CapModerateWeb}

\* sequences over S of length at most n
SeqsUpTo(S, n) == UNION {[1..k -> S] : k \in 0..n}

\* the rearrangements of a sequence
Rearrangements(seq) ==
  {q \in [1..Len(seq) -> {seq[i] : i \in 1..Len(seq)}] :
     \A x \in {seq[i] : i \in 1..Len(seq)} :
        Cardinality({i \in 1..Len(seq) : q[i] = x}) = Cardinality({i \in 1..Len(seq) : seq[i] = x})}

CallElectHost ==
  /\ heCall = "none"
  /\ heResult' = electHost(hePeers, heStats, heCaps)
  /\ heCall' = "electHost"
  /\ UNCHANGED << hePeers, heStats, heCaps, heCurrent, heReplace, heScore, nodeVars, envVars, serverVars, appVars >>

CallShouldReplaceHost ==
  /\ heCall = "none"
  /\ heReplace' = shouldReplaceHost(heCurrent, hePeers, heStats, heCaps, DefaultHysteresis)
  /\ heCall' = "shouldReplaceHost"
  /\ UNCHANGED << hePeers, heStats, heCaps, heCurrent, heResult, heScore, nodeVars, envVars, serverVars, appVars >>

InitElect ==
  /\ AppInit
  /\ NodeInit /\ ServerInit
  /\ present = [n \in AllIds |-> {}]
  /\ anonymous = {}
  /\ active = IdA
  /\ steps = [n \in AllIds |-> 0]
  /\ observing = FALSE
  /\ lastEvent = NoEvent
  /\ hePeers \in SeqsUpTo(ElectIds, MaxCandidates)
  /\ heStats \in [ElectIds -> StatsChoices]
  /\ heCaps \in [ElectIds -> CapChoices]
  /\ heCurrent \in ElectIds
  /\ heResult = [threw |-> FALSE, winner |-> NoPeer]
  /\ heReplace = [threw |-> FALSE, shouldReplace |-> FALSE, newHostId |-> NoPeer]
  /\ heCall = "none"
  /\ heScore = NoScore

NextElect == CallElectHost \/ CallShouldReplaceHost

SpecElect == InitElect /\ [][NextElect]_vars

(***************************************************************************)
(* HostElection.scorePeer called on one peer over a range of bandwidths    *)
(***************************************************************************)
\* upload bandwidths in kbps around the breakpoints 100 and 2000
BandwidthSamples == {0, 1, 50, 99, 100, 101, 1050, 1999, 2000, 3000}

StatsWith(b) == [GoodStats EXCEPT !.bandwidth = b]
CapWith(b) == [CapOpenDesktop EXCEPT !.bandwidth = b]

\* the HostScore of scorePeer: scores.bandwidth (* 19) and totalScore
HostScoreOf(peerId, stats, cap) ==
  [peerId |-> peerId,
   bandwidth |-> scoreBandwidth(BandwidthOf(stats, cap)),
   totalScore |-> scorePeer(peerId, stats, cap)]

CallScorePeer ==
  /\ heCall = "none"
  /\ heScore' = HostScoreOf(hePeers[1], heStats[hePeers[1]], heCaps[hePeers[1]])
  /\ heCall' = "scorePeer"
  /\ UNCHANGED << hePeers, heStats, heCaps, heCurrent, heResult, heReplace,
                  nodeVars, envVars, serverVars, appVars >>

InitScore ==
  /\ AppInit
  /\ NodeInit /\ ServerInit
  /\ present = [n \in AllIds |-> {}]
  /\ anonymous = {}
  /\ active = IdA
  /\ steps = [n \in AllIds |-> 0]
  /\ observing = FALSE
  /\ lastEvent = NoEvent
  /\ hePeers = << IdA >>
  /\ \E stats \in {NoStats} \cup {StatsWith(b) : b \in BandwidthSamples} :
       heStats = [p \in ElectIds |-> IF p = IdA THEN stats ELSE NoStats]
  /\ \E cap \in {NoCap} \cup {CapWith(b) : b \in BandwidthSamples} :
       heCaps = [p \in ElectIds |-> IF p = IdA THEN cap ELSE NoCap]
  /\ heCurrent = NoPeer
  /\ heResult = [threw |-> FALSE, winner |-> NoPeer]
  /\ heReplace = [threw |-> FALSE, shouldReplace |-> FALSE, newHostId |-> NoPeer]
  /\ heCall = "none"
  /\ heScore = NoScore

NextScore == CallScorePeer

SpecScore == InitScore /\ [][NextScore]_vars

(***************************************************************************)
(* A room: the signaling server and one MeshConnection per socket          *)
(***************************************************************************)
\* a MeshConnection as its constructor leaves it
Fresh(n) ==
  [self |-> n, peerUsernames |-> {}, peers |-> [p \in AllIds |-> NoLink],
   detached |-> {}, currentHostId |-> NoPeer, isHost |-> FALSE,
   enableHostTopology |-> TRUE, hostForwarderActive |-> FALSE,
   incomingStreams |-> {},
   currentTopology |-> "mesh", peerCount |-> 0, meshThreshold |-> MeshThreshold,
   lastReturn |-> "none", topologyEvents |-> << >>,
   collapseClosed |-> {}, collapseHostLive |-> TRUE, created |-> {},
   becameHostCalls |-> 0, forwarderStarts |-> 0,
   retryRuns |-> [p \in AllIds |-> 0]]

Msg(type, peerId, roster) == [type |-> type, peerId |-> peerId, peers |-> roster]

\* the app builds a MeshConnection and calls connect(); the server handles
\* join-room: room-joined to the sender, peer-joined to the sockets in the room
JoinRoom(n) ==
  /\ roomOps < MaxRoomOps
  /\ n \notin roomPeers
  /\ roomPeers' = roomPeers \cup {n}
  /\ queue' = [m \in AllIds |->
                 IF m = n THEN << Msg("room-joined", NoPeer, roomPeers) >>
                 ELSE IF m \in roomPeers THEN Append(queue[m], Msg("peer-joined", n, {}))
                 ELSE queue[m]]
  /\ roomOps' = roomOps + 1
  /\ Commit(n, Fresh(n))
  /\ UNCHANGED << envVars, heVars, sigVars, appVars >>

\* disconnect() and the end of the socket; the server handles leave-room
LeaveRoom(n) ==
  /\ roomOps < MaxRoomOps
  /\ n \in roomPeers
  /\ roomPeers' = roomPeers \ {n}
  /\ queue' = [m \in AllIds |->
                 IF m = n THEN << >>
                 ELSE IF m \in roomPeers THEN Append(queue[m], Msg("peer-left", n, {}))
                 ELSE queue[m]]
  /\ roomOps' = roomOps + 1
  /\ Commit(n, disconnect(St(n)))
  /\ UNCHANGED << envVars, heVars, sigVars, appVars >>

\* the listener of the first queued message of socket n runs
OnMessage(s, m) ==
  CASE m.type = "room-joined" -> onRoomJoined(s, m.peers, m.peers)
    [] m.type = "peer-joined" -> onPeerJoined(s, m.peerId, TRUE)
    [] m.type = "peer-left" -> onPeerLeft(s, m.peerId)

Deliver(n) ==
  /\ queue[n] # << >>
  /\ Commit(n, OnMessage(St(n), Head(queue[n])))
  /\ queue' = [queue EXCEPT ![n] = Tail(@)]
  /\ UNCHANGED << roomPeers, roomOps, envVars, heVars, sigVars, appVars >>

\* the peers that joined the room, in id order, before the first step
Founders == {IdB, IdC, IdD, IdE}

\* The room after "b", "c", "d" and "e" have joined in this order and every
\* notification has been handled: each founder opened a link to the peers
\* of its roster and knows the usernames of the other three
InitRoom ==
  /\ AppInit
  /\ peerUsernames = [n \in AllIds |-> IF n \in Founders THEN Founders \ {n} ELSE {}]
  /\ peers = [n \in AllIds |-> [p \in AllIds |->
                IF n \in Founders /\ p \in Founders /\ StrLess(p, n)
                THEN NewLink(TRUE) ELSE NoLink]]
  /\ detached = [n \in AllIds |-> {}]
  /\ currentHostId = [n \in AllIds |-> NoPeer]
  /\ isHost = [n \in AllIds |-> FALSE]
  /\ enableHostTopology = [n \in AllIds |-> TRUE]
  /\ hostForwarderActive = [n \in AllIds |-> FALSE]
  /\ incomingStreams = [n \in AllIds |-> {}]
  /\ becameHostCalls = [n \in AllIds |-> 0]
  /\ forwarderStarts = [n \in AllIds |-> 0]
  /\ currentTopology = [n \in AllIds |-> "mesh"]
  /\ peerCount = [n \in AllIds |-> IF n \in Founders THEN 3 ELSE 0]
  /\ meshThreshold = [n \in AllIds |-> MeshThreshold]
  /\ lastReturn = [n \in AllIds |-> IF n \in Founders THEN "mesh" ELSE "none"]
  /\ topologyEvents = [n \in AllIds |-> << >>]
  /\ collapseClosed = [n \in AllIds |-> {}]
  /\ collapseHostLive = [n \in AllIds |-> TRUE]
  /\ created = [n \in AllIds |-> {}]
  /\ prevHostId = [n \in AllIds |-> NoPeer]
  /\ retryRuns = [n \in AllIds |-> [p \in AllIds |-> 0]]
  /\ roomPeers = Founders
  /\ srvRooms = [r \in SrvRoomIds |-> << >>]
  /\ srvMembers = [r \in SrvRoomIds |-> {}]
  /\ srvConnected = SrvSockets
  /\ srvRegistered = {}
  /\ srvEmits = {}
  /\ srvOps = 0
  /\ queue = [n \in AllIds |-> << >>]
  /\ roomOps = 0
  /\ ElectionIdle
  /\ present = [n \in AllIds |-> {}]
  /\ anonymous = {}
  /\ active = IdA
  /\ steps = [n \in AllIds |-> 0]
  /\ observing = FALSE
  /\ lastEvent = NoEvent

NextRoom ==
  \/ \E n \in AllIds : JoinRoom(n)
  \/ \E n \in AllIds : LeaveRoom(n)
  \/ \E n \in AllIds : Deliver(n)

SpecRoom == InitRoom /\ [][NextRoom]_vars

(***************************************************************************)
(* The signaling server and the sockets connected to it.  Any socket may   *)
(* send any message; screen sharing notifications are left out             *)
(***************************************************************************)
\* Array.from(room.peers.keys())
KeysOf(entries) == {entries[i].peerId : i \in 1..Len(entries)}

\* room.peers.set(peerId, {socketId, peerId, username}): a key that is
\* present keeps its place
MapSet(entries, peerId, socketId) ==
  IF peerId \in KeysOf(entries)
  THEN [i \in 1..Len(entries) |->
          IF entries[i].peerId = peerId THEN [peerId |-> peerId, socketId |-> socketId]
          ELSE entries[i]]
  ELSE Append(entries, [peerId |-> peerId, socketId |-> socketId])

\* room.peers.delete(peerId)
MapDelete(entries, peerId) == SelectSeq(entries, LAMBDA e : e.peerId # peerId)

\* room.peers.get(peerId)?.socketId, "" for undefined
SocketOf(entries, peerId) ==
  IF peerId \in KeysOf(entries)
  THEN (CHOOSE e \in {entries[i] : i \in 1..Len(entries)} : e.peerId = peerId).socketId
  ELSE ""

\* Array.from(room.peers.entries()).find(([_, peer]) => peer.socketId === socket.id),
\* NoPeer for undefined
FindBySocket(entries, socketId) ==
  LET hits == {i \in 1..Len(entries) : entries[i].socketId = socketId}
  IN IF hits = {} THEN NoPeer
     ELSE entries[CHOOSE i \in hits : \A j \in hits : i <= j].peerId

\* one delivery of an emit
Delivery(to, type, peerId, roster) ==
  [to |-> to, type |-> type, peerId |-> peerId, peers |-> roster]

\* socket.to(roomId).emit(...): every socket in the socket.io room but the sender
BroadcastTo(members, sender, type, peerId) ==
  {Delivery(t, type, peerId, {}) : t \in (members \ {sender}) \cap srvConnected}

\* socket.on('join-room')
SrvJoinRoom(socket, roomId, peerId) ==
  /\ srvOps < MaxSrvOps
  /\ socket \in srvConnected
  /\ srvRooms' = [srvRooms EXCEPT ![roomId] = MapSet(@, peerId, socket)]
  /\ srvMembers' = [srvMembers EXCEPT ![roomId] = @ \cup {socket}]
  /\ srvEmits' = {Delivery(socket, "room-joined", NoPeer, KeysOf(srvRooms[roomId]))}
                   \cup BroadcastTo(srvMembers[roomId], socket, "peer-joined", peerId)
  /\ srvRegistered' = srvRegistered \cup {<< socket, roomId, peerId >>}
  /\ srvOps' = srvOps + 1
  /\ UNCHANGED << srvConnected, roomPeers, queue, roomOps, nodeVars, envVars, heVars, appVars >>

\* the signal handler forwards even when the sender has no entry in the room
SrvSignalAnySender(socket, roomId, targetPeerId) ==
  /\ socket \in srvConnected
  /\ LET entries == srvRooms[roomId]
         senderPeerId == FindBySocket(entries, socket)
     IN srvEmits' =
          IF Len(entries) = 0 THEN {}
          ELSE IF targetPeerId \notin KeysOf(entries) THEN {}
          ELSE {Delivery(t, "signal", senderPeerId, {}) :
                  t \in {SocketOf(entries, targetPeerId)} \cap srvConnected}
  /\ UNCHANGED << srvRooms, srvMembers, srvConnected, srvRegistered, srvOps,
                  roomPeers, queue, roomOps, nodeVars, envVars, heVars, appVars >>

\* socket.on('signal'); io.to(targetPeer.socketId).emit('signal', {fromPeerId, ...})
SrvSignal(socket, roomId, targetPeerId) ==
  /\ socket \in srvConnected
  /\ LET entries == srvRooms[roomId]
         senderPeerId == FindBySocket(entries, socket)
     IN srvEmits' =
          IF Len(entries) = 0 THEN {}
          ELSE IF targetPeerId \notin KeysOf(entries) THEN {}
          ELSE IF senderPeerId = NoPeer THEN {}
          ELSE {Delivery(t, "signal", senderPeerId, {}) :
                  t \in {SocketOf(entries, targetPeerId)} \cap srvConnected}
  /\ UNCHANGED << srvRooms, srvMembers, srvConnected, srvRegistered, srvOps,
                  roomPeers, queue, roomOps, nodeVars, envVars, heVars, appVars >>

\* socket.on('leave-room'); a room without peers does not exist
SrvLeaveRoom(socket, roomId, peerId) ==
  /\ srvOps < MaxSrvOps
  /\ socket \in srvConnected
  /\ IF Len(srvRooms[roomId]) > 0
     THEN /\ srvRooms' = [srvRooms EXCEPT ![roomId] = MapDelete(@, peerId)]
          /\ srvMembers' = [srvMembers EXCEPT ![roomId] = @ \ {socket}]
          /\ srvEmits' = BroadcastTo(srvMembers[roomId], socket, "peer-left", peerId)
     ELSE /\ srvEmits' = {}
          /\ UNCHANGED << srvRooms, srvMembers >>
  /\ srvOps' = srvOps + 1
  /\ UNCHANGED << srvConnected, srvRegistered, roomPeers, queue, roomOps,
                  nodeVars, envVars, heVars, appVars >>

\* socket.on('disconnect'): in every room the first entry of this socket goes;
\* socket.io has taken the socket out of its rooms
SrvDisconnect(socket) ==
  /\ srvOps < MaxSrvOps
  /\ socket \in srvConnected
  /\ srvRooms' = [r \in SrvRoomIds |->
                    IF FindBySocket(srvRooms[r], socket) = NoPeer THEN srvRooms[r]
                    ELSE MapDelete(srvRooms[r], FindBySocket(srvRooms[r], socket))]
  /\ srvMembers' = [r \in SrvRoomIds |-> srvMembers[r] \ {socket}]
  /\ srvEmits' = UNION {IF FindBySocket(srvRooms[r], socket) = NoPeer THEN {}
                        ELSE BroadcastTo(srvMembers[r], socket, "peer-left",
                                         FindBySocket(srvRooms[r], socket)) :
                        r \in SrvRoomIds}
  /\ srvConnected' = srvConnected \ {socket}
  /\ srvOps' = srvOps + 1
  /\ UNCHANGED << srvRegistered, roomPeers, queue, roomOps, nodeVars, envVars, heVars, appVars >>

InitSignaling ==
  /\ AppInit
  /\ NodeInit /\ ServerInit /\ ElectionIdle
  /\ present = [n \in AllIds |-> {}]
  /\ anonymous = {}
  /\ active = IdA
  /\ steps = [n \in AllIds |-> 0]
  /\ observing = FALSE
  /\ lastEvent = NoEvent

NextSignaling ==
  \/ \E socket \in SrvSockets, roomId \in SrvRoomIds, peerId \in SrvPeerIds :
       SrvJoinRoom(socket, roomId, peerId)
  \/ \E socket \in SrvSockets, roomId \in SrvRoomIds, peerId \in SrvPeerIds :
       SrvSignal(socket, roomId, peerId)
  \/ \E socket \in SrvSockets, roomId \in SrvRoomIds, peerId \in SrvPeerIds :
       SrvLeaveRoom(socket, roomId, peerId)
  \/ \E socket \in SrvSockets : SrvDisconnect(socket)

SpecSignaling == InitSignaling /\ [][NextSignaling]_vars

(***************************************************************************)
(* The renderer: connect, disconnect, session-level reconnect, mute and    *)
(* deafen.  One connect() is awaited at a time                             *)
(***************************************************************************)
\* const MAX_RECONNECT_ATTEMPTS = 5
MAX_RECONNECT_ATTEMPTS == 5
\* const RECONNECT_DELAY_MS = 3000, in seconds
RECONNECT_DELAY_S == 3

RECURSIVE Pow2(_)
\* Math.pow(2, k)
Pow2(k) == IF k <= 0 THEN 1 ELSE 2 * Pow2(k - 1)

\* cancelReconnect(), and the same assignments after a successful reconnect
cancelReconnect ==
  /\ reconnectTimeout' = "none"
  /\ isReconnecting' = FALSE
  /\ reconnectAttempts' = 0
  /\ reconnectData' = FALSE

\* attemptReconnect() up to its await connect()
attemptReconnect ==
  IF ~reconnectData \/ isReconnecting
  THEN UNCHANGED << reconnectAttempts, isReconnecting, reconnectData, connectPc >>
  ELSE IF reconnectAttempts >= MAX_RECONNECT_ATTEMPTS
  THEN /\ isReconnecting' = FALSE
       /\ reconnectAttempts' = 0
       /\ reconnectData' = FALSE
       /\ UNCHANGED connectPc
  ELSE /\ reconnectAttempts' = reconnectAttempts + 1
       /\ isReconnecting' = TRUE
       /\ connectPc' = "reconnect"
       /\ UNCHANGED reconnectData

\* the connect button: connect() runs up to the wait for the socket
UserConnect ==
  /\ ~connected /\ connectPc = "idle"
  /\ connectPc' = "user"
  /\ audioManager' = TRUE
  /\ UNCHANGED << reconnectAttempts, isReconnecting, reconnectData, reconnectTimeout,
                  reconnectDelay, socketUp, connected,
                  isMuted, isDeafened, muted, deafened, mutedBeforeDeafen, restVars >>

\* the awaited connect() goes through; a reconnect then resets its state
ConnectSucceeds ==
  /\ connectPc # "idle"
  /\ connectPc' = "idle"
  /\ socketUp' = TRUE
  /\ connected' = TRUE
  /\ audioManager' = TRUE
  /\ IF connectPc = "reconnect" THEN cancelReconnect
     ELSE /\ reconnectData' = TRUE
          /\ reconnectAttempts' = 0
          /\ UNCHANGED << isReconnecting, reconnectTimeout >>
  /\ UNCHANGED << reconnectDelay, isMuted, isDeafened, muted, deafened, mutedBeforeDeafen, restVars >>

\* the awaited connect() fails (connect_error).  Its catch calls disconnect()
\* unless a reconnect is under way, in which case it rethrows and the catch
\* of attemptReconnect schedules the next attempt
ConnectFails ==
  /\ connectPc # "idle"
  /\ connectPc' = "idle"
  /\ IF ~isReconnecting
     THEN /\ cancelReconnect
          /\ socketUp' = FALSE
          /\ connected' = FALSE
          /\ UNCHANGED reconnectDelay
     ELSE /\ reconnectDelay' = IF connectPc = "reconnect"
                               THEN RECONNECT_DELAY_S * Pow2(reconnectAttempts - 1)
                               ELSE reconnectDelay
          /\ reconnectTimeout' = IF connectPc = "reconnect" THEN "pending" ELSE reconnectTimeout
          /\ UNCHANGED << reconnectAttempts, isReconnecting, reconnectData, socketUp, connected >>
  /\ UNCHANGED << auVars, restVars >>

\* socket 'disconnect' with reason transport close, transport error or ping timeout
SocketLost ==
  /\ socketUp
  /\ socketUp' = FALSE
  /\ attemptReconnect
  /\ UNCHANGED << reconnectTimeout, reconnectDelay, connected, auVars, restVars >>

\* the callback of reconnectTimeout runs; the variable keeps the handle
ReconnectTimerFires ==
  /\ reconnectTimeout = "pending"
  /\ reconnectTimeout' = "fired"
  /\ attemptReconnect
  /\ UNCHANGED << reconnectDelay, socketUp, connected, auVars, restVars >>

\* the disconnect button: disconnect()
UserDisconnect ==
  /\ connected
  /\ cancelReconnect
  /\ socketUp' = FALSE
  /\ connected' = FALSE
  /\ UNCHANGED << reconnectDelay, connectPc, auVars, restVars >>

\* the mute button: toggleMute()
ToggleMute ==
  /\ connected /\ audioManager
  /\ muted' = ~muted
  /\ isMuted' = ~muted
  /\ UNCHANGED << audioManager, isDeafened, deafened, mutedBeforeDeafen, rcVars, restVars >>

\* the deafen button: toggleDeafen()
ToggleDeafen ==
  /\ connected /\ audioManager
  /\ deafened' = ~deafened
  /\ isDeafened' = ~deafened
  /\ IF ~deafened /\ ~isMuted
     THEN muted' = ~muted /\ isMuted' = ~muted
     ELSE UNCHANGED << muted, isMuted >>
  /\ mutedBeforeDeafen' = IF ~deafened THEN isMuted ELSE mutedBeforeDeafen
  /\ UNCHANGED << audioManager, rcVars, restVars >>

InitApp ==
  /\ AppInit
  /\ NodeInit /\ ServerInit /\ ElectionIdle
  /\ present = [n \in AllIds |-> {}]
  /\ anonymous = {}
  /\ active = IdA
  /\ steps = [n \in AllIds |-> 0]
  /\ observing = FALSE
  /\ lastEvent = NoEvent

NextApp ==
  \/ UserConnect \/ ConnectSucceeds \/ ConnectFails \/ SocketLost
  \/ ReconnectTimerFires \/ UserDisconnect \/ ToggleMute \/ ToggleDeafen

SpecApp == InitApp /\ [][NextApp]_vars

(***************************************************************************)
(* Two nodes of one room and the link between them, with the events of     *)
(* both ends                                                               *)
(***************************************************************************)
PairNodes == {IdB, IdC}

\* "c" joined the room of "b": c opened the link of its roster, b cached the
\* username at peer-joined and created its end when the offer of c arrived
InitPair ==
  /\ AppInit
  /\ ServerInit /\ ElectionIdle
  /\ peerUsernames = [n \in AllIds |-> IF n \in PairNodes THEN PairNodes \ {n} ELSE {}]
  /\ peers = [n \in AllIds |-> [p \in AllIds |->
                IF n = IdC /\ p = IdB THEN NewLink(TRUE)
                ELSE IF n = IdB /\ p = IdC THEN NewLink(FALSE)
                ELSE NoLink]]
  /\ detached = [n \in AllIds |-> {}]
  /\ currentHostId = [n \in AllIds |-> NoPeer]
  /\ isHost = [n \in AllIds |-> FALSE]
  /\ enableHostTopology = [n \in AllIds |-> TRUE]
  /\ hostForwarderActive = [n \in AllIds |-> FALSE]
  /\ incomingStreams = [n \in AllIds |-> {}]
  /\ becameHostCalls = [n \in AllIds |-> 0]
  /\ forwarderStarts = [n \in AllIds |-> 0]
  /\ currentTopology = [n \in AllIds |-> "mesh"]
  /\ peerCount = [n \in AllIds |-> IF n \in PairNodes THEN 1 ELSE 0]
  /\ meshThreshold = [n \in AllIds |-> MeshThreshold]
  /\ lastReturn = [n \in AllIds |-> IF n \in PairNodes THEN "mesh" ELSE "none"]
  /\ topologyEvents = [n \in AllIds |-> << >>]
  /\ collapseClosed = [n \in AllIds |-> {}]
  /\ collapseHostLive = [n \in AllIds |-> TRUE]
  /\ created = [n \in AllIds |-> {}]
  /\ prevHostId = [n \in AllIds |-> NoPeer]
  /\ retryRuns = [n \in AllIds |-> [p \in AllIds |-> 0]]
  /\ present = [n \in AllIds |-> IF n \in PairNodes THEN PairNodes ELSE {}]
  /\ anonymous = {}
  /\ active = IdB
  /\ steps = [n \in AllIds |-> 0]
  /\ observing = FALSE
  /\ lastEvent = NoEvent

\* the relay hands n signaling data that the open link of p toward n emitted
PairSignal(n, p) == peers[p][n].st = "open" /\ Signal(n, p)

\* the link of n reports connected: an initiator and a non-initiator end met
PairConnect(n, p) ==
  /\ peers[p][n].st = "open" /\ peers[p][n].initiator # peers[n][p].initiator
  /\ ConnectInMap(n, p)

NextPair ==
  \E n \in PairNodes : \E p \in PairNodes \ {n} :
    \/ PairSignal(n, p)
    \/ PairConnect(n, p)
    \/ CloseInMap(n, p)
    \/ RetryTimerInMap(n, p)

SpecPair == InitPair /\ [][NextPair]_vars

(***************************************************************************)
(* Properties                                                              *)
(***************************************************************************)
\* every notification has been handled and every member knows all others
Quiescent ==
  /\ \A n \in AllIds : queue[n] = << >>
  /\ \A n \in roomPeers : peerUsernames[n] = roomPeers \ {n}

\* C1: in a room whose membership has stopped changing and in which every
\* peer knows the same member set, all peers that are in host topology hold
\* the same currentHostId, whatever the order of the joins and leaves before
HostAgreement ==
  Quiescent =>
    \A m \in roomPeers : \A n \in roomPeers :
      (currentTopology[m] = "host" /\ currentTopology[n] = "host")
        => currentHostId[m] = currentHostId[n]

RECURSIVE SortedSeq(_)
\* the ids of S in sort order
SortedSeq(S) ==
  IF S = {} THEN << >>
  ELSE LET x == SortedFirst(S) IN << x >> \o SortedSeq(S \ {x})

\* the event just handled by node n assigned a host that was not assigned before
NewlyAssigned(n) == currentHostId[n] # NoPeer /\ currentHostId[n] # prevHostId[n]

\* the winner of HostElection.electHost over self plus all known peers of
\* node n; MeshConnection never fills stats or capability of a peer
ScoringWinner(n) ==
  electHost(<< n >> \o SortedSeq(peerUsernames[n] \ {n}),
            [p \in AllIds |-> NoStats], [p \in AllIds |-> NoCap]).winner

StarCollapseOrdering ==
  \A n \in AllIds : collapseClosed[n] # {} => collapseHostLive[n]

\* C4: at most one live link per peerId; a link replaced in the registry by
\* createPeerConnection has been destroyed, so no undestroyed replaced link
\* remains
SingleActiveLink ==
  \A n \in AllIds : \A d \in detached[n] : d.st # "open"

\* C5: a link that keeps failing is re-created at most 1 time for an
\* ordinary peer and at most 3 times for the current host, counted across
\* the successive re-created links of that peer, and once that many
\* re-creations have run no further retry is scheduled for the peer's link
RetryCap ==
  \A n \in AllIds : \A p \in AllIds :
    LET cap == IF p = currentHostId[n] /\ ~isHost[n]
               THEN MaxRetriesHost ELSE MaxRetriesPeer
    IN /\ retryRuns[n][p] <= cap
       /\ retryRuns[n][p] = cap => ~peers[n][p].timer

\* C6: whenever a peer's link is removed from the registry, by any path,
\* every pending retry timer for that peer is cancelled: a peer without a
\* link in the registry has no pending retry timer
TimersCancelled ==
  \A n \in AllIds : \A d \in detached[n] :
    peers[n][d.peerId].st = "none" => ~d.timer

\* C7: updatePeerCount(n) returns mesh when n + 1 <= threshold and host
\* otherwise, for every count and threshold and independent of earlier
\* calls; with threshold 4, count 3 gives mesh and count 4 gives host
ThresholdBoundary ==
  \A n \in AllIds :
    lastReturn[n] # "none" =>
      /\ (peerCount[n] + 1 <= meshThreshold[n] => lastReturn[n] = "mesh")
      /\ (peerCount[n] + 1 > meshThreshold[n] => lastReturn[n] = "host")

\* updatePeerCount(4) returned host under the default threshold
ThresholdBoundaryWitness ==
  /\ meshThreshold[active] = MeshThreshold
  /\ peerCount[active] = MeshThreshold
  /\ lastReturn[active] = "host"

\* C8: for every candidate list and every permutation of it, with the same
\* stats and capabilities, HostElection.electHost returns the same winner
ElectionDeterminism ==
  heCall = "electHost" =>
    \A q \in Rearrangements(hePeers) :
      electHost(q, heStats, heCaps).winner = heResult.winner

\* totalScore of a candidate under the inputs of the call
HeScore(p) == scorePeer(p, heStats[p], heCaps[p])

\* the candidates of the call, and those other than the incumbent
HeCandidates == {hePeers[i] : i \in 1..Len(hePeers)}
HeAlternatives == HeCandidates \ {heCurrent}

\* S holds a candidate that beats the incumbent by more than the threshold
BeatsIncumbent(S) ==
  \E p \in S : HeScore(p) - HeScore(heCurrent) > DefaultHysteresis * ScoreScale

\* p has the highest score of S
IsBest(p, S) == p \in S /\ \A q \in S : HeScore(q) <= HeScore(p)

\* what C9 says of a call whose peers list contains the incumbent
HysteresisRule ==
  (heCall = "shouldReplaceHost" /\ heCurrent \in HeCandidates) =>
    /\ ~heReplace.threw
    /\ heReplace.shouldReplace = BeatsIncumbent(HeAlternatives)
    /\ heReplace.shouldReplace => IsBest(heReplace.newHostId, HeAlternatives)

\* C9 as stated: shouldReplace is false when the best alternative exceeds
\* the incumbent by the threshold or less, true with the best alternative
\* when it exceeds it by more, and for every peers list that does not
\* contain the incumbent true with the freshly elected winner
HysteresisAsStated ==
  /\ HysteresisRule
  /\ (heCall = "shouldReplaceHost" /\ heCurrent \notin HeCandidates) =>
       /\ ~heReplace.threw
       /\ heReplace.shouldReplace
       /\ IsBest(heReplace.newHostId, HeCandidates)

\* C9 amended: as stated, but only a non-empty peers list without the
\* incumbent gives shouldReplace=true with the freshly elected winner; with
\* an empty peers list the call throws
Hysteresis ==
  /\ HysteresisRule
  /\ (heCall = "shouldReplaceHost" /\ heCurrent \notin HeCandidates) =>
       IF hePeers = << >>
       THEN heReplace.threw
       ELSE /\ ~heReplace.threw
            /\ heReplace.shouldReplace
            /\ IsBest(heReplace.newHostId, HeCandidates)

\* the best alternative exceeds the incumbent by exactly the threshold and
\* the call answered that the host stays
HysteresisWitness ==
  /\ heCall = "shouldReplaceHost"
  /\ heCurrent \in HeCandidates
  /\ \E p \in HeAlternatives :
       /\ IsBest(p, HeAlternatives)
       /\ HeScore(p) - HeScore(heCurrent) = DefaultHysteresis * ScoreScale
  /\ ~heReplace.shouldReplace

\* C10: on one node, currentHostId changes from one peer id to a different
\* peer id only in a step after which the previous host is no longer among
\* the known peers; a topology recompute or a new peer never displaces a
\* host that is still present
StickyHost ==
  \A n \in AllIds :
    (prevHostId[n] # NoPeer /\ currentHostId[n] # NoPeer
       /\ currentHostId[n] # prevHostId[n])
      => prevHostId[n] \notin {n} \cup peerUsernames[n]

\* a node has just re-run its election with a host already assigned and
\* kept it, although a peer with a smaller id than the host is known
StickyHostWitness ==
  /\ currentHostId[active] # NoPeer
  /\ prevHostId[active] = currentHostId[active]
  /\ \E q \in peerUsernames[active] : StrLess(q, currentHostId[active])

(***************************************************************************)
(* C11. Valid host assignment: after every handled event an assigned host  *)
(* is this node or one of its known peers; right after peer-left for a     *)
(* peer, the assignment does not name the departed peer, and it is cleared *)
(* only with the topology back to mesh.                                    *)
(***************************************************************************)
ValidHostAssignment ==
  /\ \A n \in AllIds :
    currentHostId[n] # NoPeer =>
      /\ currentHostId[n] \in {n} \cup peerUsernames[n]
      /\ (n = active /\ lastEvent.type = "peer-left" =>
            currentHostId[n] # lastEvent.peer)
  /\ (lastEvent.type = "peer-left" /\ prevHostId[active] = lastEvent.peer
        /\ currentHostId[active] = NoPeer)
       => currentTopology[active] = "mesh"

\* peer-left for the current host was just handled and another member was
\* assigned in the same event
ValidHostAssignmentWitness ==
  /\ lastEvent.type = "peer-left"
  /\ prevHostId[active] = lastEvent.peer
  /\ currentHostId[active] # NoPeer
  /\ currentHostId[active] # lastEvent.peer
  /\ currentTopology[active] = "host"

(***************************************************************************)
(* C12. Explicit leave: right after peer-left(P) was handled, P has no     *)
(* link in the registry, the peer count fed to TopologyManager does not    *)
(* include P, and no retry timer started before the leave creates a link   *)
(* to P when it fires later, also with P back in the room by then.         *)
(***************************************************************************)
\* the timers of P that were started before the leave and are still pending
TimersOfLeft(n, P) == {d \in detached[n] : d.peerId = P /\ d.timer}

ExplicitLeave ==
  lastEvent.type = "peer-left" =>
    LET n == active
        P == lastEvent.peer
    IN /\ ~Has(St(n), P)
       /\ P \notin peerUsernames[n]
       /\ peerCount[n] = Cardinality(peerUsernames[n])
       /\ \A d \in TimersOfLeft(n, P) :
            /\ ~Has(onRetryTimerDetached(St(n), d), P)
            /\ ~Has(onRetryTimerDetached(onPeerJoined(St(n), P, TRUE), d), P)

(***************************************************************************)
(* C13. Idempotent becomeHost: right after becomeHost ran, calling it a    *)
(* second time with no step-down in between changes no field, starts the   *)
(* forwarder no second time, creates no link, leaves each peer stream in   *)
(* the mix once, and does not notify the became-host observer again.       *)
(***************************************************************************)
\* node n has just run becomeHost and is still host
JustBecameHost(n) == becameHostCalls[n] > 0 /\ isHost[n]

\* the fields of a node without the per-event observations
Fields(s) ==
  [peerUsernames |-> s.peerUsernames, peers |-> s.peers, detached |-> s.detached,
   currentHostId |-> s.currentHostId, isHost |-> s.isHost,
   hostForwarderActive |-> s.hostForwarderActive,
   incomingStreams |-> s.incomingStreams,
   currentTopology |-> s.currentTopology, peerCount |-> s.peerCount]

\* the state and the effects of the second call
SecondCallSilent(n) ==
  LET again == becomeHost(St(n))
  IN /\ Fields(again) = Fields(St(n))
     /\ again.forwarderStarts = 0
     /\ again.created = {}

IdempotentBecomeHost ==
  \A n \in AllIds :
    JustBecameHost(n) =>
      /\ SecondCallSilent(n)
      /\ becomeHost(St(n)).becameHostCalls = 0

(***************************************************************************)
(* C14. Dissolve to mesh: after an event in which the topology flipped     *)
(* from host back to mesh with host topology enabled, the node is not      *)
(* host, its forwarder is stopped, no host is assigned, and every known    *)
(* peer other than the node itself has a link in the registry.             *)
(***************************************************************************)
\* the last handled event of node n flipped its topology from host to mesh
FlippedToMesh(n) ==
  /\ topologyEvents[n] # << >>
  /\ topologyEvents[n][Len(topologyEvents[n])].oldTopology = "host"
  /\ topologyEvents[n][Len(topologyEvents[n])].newTopology = "mesh"

DissolveToMesh ==
  \A n \in AllIds :
    (FlippedToMesh(n) /\ enableHostTopology[n]) =>
      /\ ~isHost[n]
      /\ ~hostForwarderActive[n]
      /\ currentHostId[n] = NoPeer
      /\ \A p \in peerUsernames[n] \ {n} : Has(St(n), p)

\* a node with a host assigned went back to mesh, and the event opened a
\* link to a known peer that had none
DissolveToMeshWitness ==
  /\ FlippedToMesh(active) /\ enableHostTopology[active]
  /\ prevHostId[active] # NoPeer
  /\ \E c \in created[active] : c.peerId \in peerUsernames[active] /\ c.initiator

(***************************************************************************)
(* C15. becomeHost postcondition: after an event in which this node became *)
(* host, every known peer has a link in the registry, the forwarder is     *)
(* active, every stream received on a link of the registry is in the       *)
(* forwarder, and the became-host observer was notified.                   *)
(***************************************************************************)
\* node n took the host role in its last handled event
BecameHost(n) ==
  /\ isHost[n]
  /\ \/ becameHostCalls[n] > 0
     \/ forwarderStarts[n] > 0
     \/ (currentHostId[n] = n /\ prevHostId[n] # n)

BecomeHostPostcondition ==
  \A n \in AllIds :
    BecameHost(n) =>
      /\ \A p \in peerUsernames[n] : Has(St(n), p)
      /\ hostForwarderActive[n]
      /\ WithStream(St(n)) \subseteq incomingStreams[n]
      /\ becameHostCalls[n] > 0

\* the node became host with a stream already received, and opened a link
\* to a known peer that had none
BecomeHostPostconditionWitness ==
  /\ BecameHost(active)
  /\ WithStream(St(active)) # {}
  /\ \E c \in created[active] : c.peerId \in peerUsernames[active] /\ c.initiator

(***************************************************************************)
(* C16. Roster handling: right after room-joined with roster R was         *)
(* handled, the registry holds for every peer of R a link created with     *)
(* initiator = true, and the peer count fed to TopologyManager is the      *)
(* size of R.                                                              *)
(***************************************************************************)
\* the roster of the room-joined that node n handled last
LastRoster(n) == present[n] \ {n}

RosterLinked(n) ==
  \A p \in LastRoster(n) :
    /\ Has(St(n), p) /\ peers[n][p].initiator
    /\ [peerId |-> p, initiator |-> TRUE] \in created[n]

RosterHandling ==
  lastEvent.type = "room-joined" =>
    /\ RosterLinked(active)
    /\ peerCount[active] = Cardinality(LastRoster(active))

(***************************************************************************)
(* C17. Lazy link creation: handling peer-joined(P) caches the username of *)
(* P and creates no link toward P, unless this node became host in that    *)
(* event; in particular a node that is not the elected host creates no     *)
(* initiator link toward the joiner when the join flips the topology.      *)
(***************************************************************************)
\* the links toward p that the last handled event of node n created
CreatedToward(n, p) == {c \in created[n] : c.peerId = p}

LazyLinkCreation ==
  lastEvent.type = "peer-joined" =>
    LET n == active
        P == lastEvent.peer
    IN /\ HasUsername(P) => P \in peerUsernames[n]
       /\ ~isHost[n] => CreatedToward(n, P) = {}

(***************************************************************************)
(* C18. Order independence: for a peer P that is not yet in the room of    *)
(* this node, peer-joined(P) followed by the first signal(P) and signal(P) *)
(* followed by peer-joined(P) lead to the same state, with one link to P   *)
(* created with initiator = false and the username of P cached; at every   *)
(* peer count, also the one at which the arrival flips the topology.       *)
(***************************************************************************)
JoinedThenSignal(n, P) == onSignal(onPeerJoined(St(n), P, TRUE), P)

SignalThenJoined(n, P) == onPeerJoined(onSignal(St(n), P), P, TRUE)

\* the peers whose arrival node n can see next
Arriving(n) ==
  IF n \in present[n] THEN {P \in AllIds \ present[n] : ~Has(St(n), P)} ELSE {}

OrderIndependence ==
  \A P \in Arriving(active) :
    LET js == JoinedThenSignal(active, P)
        sj == SignalThenJoined(active, P)
    IN /\ Fields(js) = Fields(sj)
       /\ Has(js, P) /\ ~js.peers[P].initiator
       /\ P \in js.peerUsernames

(***************************************************************************)
(* C19. Topology change event only on a flip: in every updatePeerCount     *)
(* call of any sequence of calls, the topology-changed handler is invoked  *)
(* once, with oldTopology different from newTopology, when the mode        *)
(* derived from the count differs from the stored mode, and is not invoked *)
(* when the mode stays the same.                                           *)
(***************************************************************************)
\* the handler invocations a call updatePeerCount(count) of node n owes
OwedEvents(n, count) ==
  LET derived == determineTopology(count, meshThreshold[n])
  IN IF derived # currentTopology[n]
     THEN << [oldTopology |-> currentTopology[n], newTopology |-> derived,
              peerCount |-> count] >>
     ELSE << >>

EventOnlyOnFlipStep ==
  \A count \in 0..MaxCount :
    TMUpdatePeerCount(active, count) =>
      /\ topologyEvents'[active] = OwedEvents(active, count)
      /\ \A i \in DOMAIN topologyEvents'[active] :
           topologyEvents'[active][i].oldTopology # topologyEvents'[active][i].newTopology

EventOnlyOnFlip == [][EventOnlyOnFlipStep]_vars

\* an updatePeerCount call flipped the mode back to mesh and the handler
\* was invoked once for it
EventOnlyOnFlipWitness ==
  /\ lastReturn[active] = "mesh"
  /\ Len(topologyEvents[active]) = 1
  /\ topologyEvents[active][1].oldTopology = "host"
  /\ topologyEvents[active][1].peerCount = peerCount[active]

(***************************************************************************)
(* C20. forceTopology(mode) with a mode other than the current one invokes *)
(* the topology-changed handler once, with oldTopology, newTopology and    *)
(* the current peerCount, and the orchestrator reacts as for an organic    *)
(* flip: a host is elected on entering host, the host topology is          *)
(* dissolved on entering mesh; forceTopology with the current mode emits   *)
(* nothing and changes nothing.                                            *)
(***************************************************************************)
\* what the orchestrator does on an organic flip of node n to topology
ReactedAsOrganic(n, topology) ==
  IF topology = "host"
  THEN /\ currentHostId'[n] \in {n} \cup peerUsernames[n]
       /\ isHost'[n] = (currentHostId'[n] = n)
       /\ hostForwarderActive'[n] = isHost'[n]
  ELSE /\ currentHostId'[n] = NoPeer
       /\ ~isHost'[n] /\ ~hostForwarderActive'[n]

ForceTopologyStep ==
  \A topology \in {"mesh", "host"} :
    TMForceTopology(active, topology) =>
      IF topology # currentTopology[active]
      THEN /\ topologyEvents'[active] =
                << [oldTopology |-> currentTopology[active],
                    newTopology |-> topology,
                    peerCount |-> peerCount[active]] >>
           /\ currentTopology'[active] = topology
           /\ peerCount'[active] = peerCount[active]
           /\ ReactedAsOrganic(active, topology)
      ELSE /\ topologyEvents'[active] = << >>
           /\ Fields(St(active))' = Fields(St(active))

ForceTopologyFires == [][ForceTopologyStep]_vars

\* forceTopology("host") was called in mesh with a count that keeps mesh:
\* the handler ran once and the node elected itself
ForceTopologyFiresWitness ==
  /\ lastReturn[active] = "none"
  /\ Len(topologyEvents[active]) = 1
  /\ topologyEvents[active][1].newTopology = "host"
  /\ peerCount[active] + 1 <= meshThreshold[active]
  /\ currentTopology[active] = "host"
  /\ isHost[active]

(***************************************************************************)
(* C21. No hidden topology state: in every reachable state of              *)
(* TopologyManager the stored topology is the mode derived from the stored *)
(* peer count and the configured threshold.                                *)
(***************************************************************************)
\* the mode the stored count and threshold of node n give
DerivedTopology(n) == determineTopology(peerCount[n], meshThreshold[n])

NoHiddenTopologyState ==
  currentTopology[active] = DerivedTopology(active)

\* C21 as the code has it: the stored topology is the derived mode in every
\* state that updatePeerCount left (called directly or by updateConfig); a
\* mode stored by forceTopology stays until the next such call
DerivedAfterCount ==
  lastReturn[active] # "none" =>
    /\ currentTopology[active] = DerivedTopology(active)
    /\ lastReturn[active] = currentTopology[active]

\* updateConfig lowered the threshold, and the re-evaluation stored host for
\* a count that gives mesh under the default threshold
DerivedAfterCountWitness ==
  /\ lastReturn[active] = "host"
  /\ currentTopology[active] = "host"
  /\ meshThreshold[active] < MeshThreshold
  /\ peerCount[active] + 1 <= MeshThreshold
  /\ topologyEvents[active] # << >>

(***************************************************************************)
(* C22. Election with an empty candidate list fails with an error and      *)
(* returns no winner: HostElection.electHost([]) throws, and               *)
(* shouldReplaceHost with an empty peers list ends in the same throw       *)
(* instead of returning a result.                                          *)
(***************************************************************************)
EmptyElectionFails ==
  /\ (heCall = "electHost" /\ Len(hePeers) = 0) =>
       (heResult.threw /\ heResult.winner = NoPeer)
  /\ (heCall = "shouldReplaceHost" /\ Len(hePeers) = 0) =>
       (heReplace.threw /\ ~heReplace.shouldReplace /\ heReplace.newHostId = NoPeer)
  /\ (heCall = "electHost" /\ Len(hePeers) > 0) => ~heResult.threw
  /\ (heCall = "shouldReplaceHost" /\ Len(hePeers) > 0) => ~heReplace.threw

\* shouldReplaceHost was called with an empty peers list and threw
EmptyElectionFailsWitness ==
  /\ heCall = "shouldReplaceHost"
  /\ Len(hePeers) = 0
  /\ heReplace.threw

\* C23: bandwidth axis.  The bandwidth reported for a peer is the one of its
\* capability when it has one, else the one of its stats.  The bandwidth
\* score (* 19) is 1900 for b >= 2000, 0 for b < 100 including b = 0,
\* b - 100 in between, and 950 only when neither is present; so the score
\* never decreases when the reported bandwidth increases.
ReportedBandwidth(stats, cap) ==
  IF cap.has THEN [has |-> TRUE, b |-> cap.bandwidth]
  ELSE IF stats.has THEN [has |-> TRUE, b |-> stats.bandwidth]
  ELSE [has |-> FALSE, b |-> 0]

AxisScore(r) ==
  IF ~r.has THEN 950
  ELSE IF r.b >= 2000 THEN 1900
  ELSE IF r.b < 100 THEN 0
  ELSE r.b - 100

BandwidthAxis ==
  heCall = "scorePeer" =>
    LET r == ReportedBandwidth(heStats[IdA], heCaps[IdA])
    IN /\ heScore.bandwidth = AxisScore(r)
       /\ r.has =>
            \A b \in BandwidthSamples :
              b >= r.b => scoreBandwidth(b) >= heScore.bandwidth

\* the sockets of the entries of room.peers
SocketsOf(entries) == {entries[i].socketId : i \in 1..Len(entries)}

\* the sockets the last handler delivered this message to
DeliveredTo(emits, type, peerId) == {e.to : e \in {x \in emits : x.type = type /\ x.peerId = peerId}}

\* C24: signaling join.  When the server handles join-room from a socket for
\* peer P and room R, it sends that socket a room-joined whose roster is the
\* set of peers that were members of R before, P is a member of R afterwards,
\* and peer-joined{P} is delivered to exactly the open sockets of the
\* members R had before (other than the joining socket itself)
SignalingJoinStep ==
  \A socket \in SrvSockets, roomId \in SrvRoomIds, peerId \in SrvPeerIds :
    SrvJoinRoom(socket, roomId, peerId) =>
      /\ Delivery(socket, "room-joined", NoPeer, KeysOf(srvRooms[roomId])) \in srvEmits'
      /\ peerId \in KeysOf(srvRooms'[roomId])
      /\ DeliveredTo(srvEmits', "peer-joined", peerId)
           = (SocketsOf(srvRooms[roomId]) \ {socket}) \cap srvConnected

SignalingJoin == [][SignalingJoinStep]_vars

\* C25: signal relay is scoped by room.  When the server handles a signal
\* from a socket naming room R and target T, anything it delivers is one
\* signal message, to the socket of T's entry in R only, and only when the
\* sending socket owns an entry of R and T has one; its fromPeerId is a peer
\* id the sending socket registered for R with join-room.  Otherwise nothing
\* is delivered.  In both cases the rooms and their sockets are unchanged
SignalRelayStep ==
  \A socket \in SrvSockets, roomId \in SrvRoomIds, targetPeerId \in SrvPeerIds :
    SrvSignal(socket, roomId, targetPeerId) =>
      LET entries == srvRooms[roomId]
          bothMembers == socket \in SocketsOf(entries) /\ targetPeerId \in KeysOf(entries)
      IN /\ ~bothMembers => srvEmits' = {}
         /\ \A e \in srvEmits' :
              /\ bothMembers
              /\ e.type = "signal"
              /\ e.to = SocketOf(entries, targetPeerId)
              /\ << socket, roomId, e.peerId >> \in srvRegistered
              /\ [peerId |-> e.peerId, socketId |-> socket] \in {entries[i] : i \in 1..Len(entries)}
         /\ srvRooms' = srvRooms /\ srvMembers' = srvMembers /\ srvConnected' = srvConnected

SignalRelay == [][SignalRelayStep]_vars

\* a signal was relayed while both rooms have members
SignalRelayWitness ==
  /\ \E e \in srvEmits : e.type = "signal" /\ e.peerId # NoPeer
  /\ \A r \in SrvRoomIds : Len(srvRooms[r]) > 0

\* C26: session-level auto-reconnect.  A failed reconnect attempt k schedules
\* the next one after 3s * 2^(k-1), and when that timer fires the next
\* attempt is performed: connect() is called again, or, after 5 failed
\* attempts, the reconnect gives up with its state reset
ReconnectRetryStep ==
  /\ (ConnectFails /\ reconnectTimeout' = "pending") =>
        reconnectDelay' = RECONNECT_DELAY_S * Pow2(reconnectAttempts - 1)
  /\ ReconnectTimerFires =>
        \/ connectPc' = "reconnect" /\ reconnectAttempts' = reconnectAttempts + 1
        \/ /\ reconnectAttempts >= MAX_RECONNECT_ATTEMPTS
           /\ reconnectAttempts' = 0 /\ ~isReconnecting' /\ ~reconnectData'

ReconnectRetries == [][ReconnectRetryStep]_vars

\* C27: deafen and mute.  A toggleDeafen that switches deafen on leaves the
\* microphone muted, and one that switches deafen off leaves isMuted as it
\* was before deafen was switched on
DeafenMuteStep ==
  ToggleDeafen =>
    /\ isDeafened' => (isMuted' /\ muted')
    /\ ~isDeafened' => (isMuted' = mutedBeforeDeafen /\ muted' = mutedBeforeDeafen)

DeafenRestoresMute == [][DeafenMuteStep]_vars

\* C28: peer lifecycle.  A peer is in the known-peer set (peerUsernames, the
\* set that is counted for TopologyManager and that electHost draws its
\* candidates from) once a peer-joined about it or a roster naming it has
\* been handled, with or without a username
KnownPeerLifecycle ==
  LET n == active
  IN /\ lastEvent.type = "peer-joined" => lastEvent.peer \in peerUsernames[n]
     /\ lastEvent.type = "room-joined" => LastRoster(n) \subseteq peerUsernames[n]

\* C29: star collapse on host connect.  When 'connect' fires on a link toward
\* the designated host of a node that is not the host, whether the link is
\* the registry entry or an object the registry no longer holds, then after
\* the handler no peer other than the host has a registry entry
OnlyHostLinked(t, host) == \A q \in AllIds \ {host} : ~Has(t, q)

StarCollapseOnConnect ==
  LET n == active
      s == St(n)
      host == currentHostId[n]
  IN (host # NoPeer /\ ~isHost[n]) =>
       /\ (peers[n][host].st = "open" /\ ~peers[n][host].connected) =>
            /\ OnlyHostLinked(onConnectInMap(s, host), host)
            /\ Has(onConnectInMap(s, host), host)
       /\ \A d \in detached[n] :
            (d.peerId = host /\ d.st = "open" /\ ~d.connected) =>
              OnlyHostLinked(onConnectDetached(s, d), host)

\* the host link of a non-host node has just reported connected, the links to
\* the other peers were closed by that event and only the host link is left
StarCollapseOnConnectWitness ==
  LET n == active
      host == currentHostId[n]
  IN /\ lastEvent.type = "link"
     /\ host # NoPeer /\ ~isHost[n]
     /\ peers[n][host].connected
     /\ Cardinality(collapseClosed[n]) >= 2
     /\ \A q \in AllIds \ {host} : peers[n][q] = NoLink

\* C30: star shape is maintained.  While a node that is not the host is in
\* host topology and its link to the host is open and connected, its
\* registry holds no entry for any other peer, whatever event came last
StarShapeMaintained ==
  LET n == active
      host == currentHostId[n]
  IN (/\ currentTopology[n] = "host" /\ ~isHost[n] /\ host # NoPeer
      /\ peers[n][host].st = "open" /\ peers[n][host].connected) =>
       \A q \in AllIds \ {host} : peers[n][q] = NoLink

\* C31: one initiator per pair.  At no time do two peers both hold an open
\* registry link toward each other that was created with initiator = true
OneInitiatorPerPair ==
  \A a \in PairNodes : \A b \in PairNodes \ {a} :
    ~(/\ peers[a][b].st = "open" /\ peers[a][b].initiator
      /\ peers[b][a].st = "open" /\ peers[b][a].initiator)

\* C32: an inbound signal is never fed into a closed link.  The link the
\* signal handler calls signal() on is the registry entry of the sender
\* after the handler ran; when the registered link of the sender has closed
\* (it awaits its retry timer), that entry is a fresh open link created with
\* initiator = false
SignalledLink(s, fromPeerId) == onSignal(s, fromPeerId).peers[fromPeerId]

SignalNeverIntoClosedLink ==
  \A p \in AllIds \ {active} :
    (p \in present[active] /\ peers[active][p].st \in {"closed", "destroyed"}) =>
      /\ SignalledLink(St(active), p).st = "open"
      /\ ~SignalledLink(St(active), p).initiator

\* C33: role consistency.  After every handled event and public call, isHost
\* holds exactly when currentHostId is the node's own id, and exactly when
\* the HostForwarder is active
RoleConsistency ==
  LET n == active
  IN /\ isHost[n] <=> (currentHostId[n] = n)
     /\ isHost[n] <=> hostForwarderActive[n]

\* the second half alone
ForwarderFollowsRole == isHost[active] <=> hostForwarderActive[active]

\* C34: host topology disabled.  In every step that starts and ends with
\* enableHostTopology false, the node does not set isHost, does not assign a
\* host and closes no link by star collapse, whatever event it handles
HostTopologyDisabledStep ==
  LET n == active
  IN (~enableHostTopology[n] /\ ~enableHostTopology'[n]) =>
       /\ isHost'[n] => isHost[n]
       /\ currentHostId'[n] \in {currentHostId[n], NoPeer}
       /\ collapseClosed'[n] = {}

MeshOnlyWhileDisabled == [][HostTopologyDisabledStep]_vars

\* star collapse alone
NoCollapseWhileDisabledStep ==
  LET n == active
  IN (~enableHostTopology[n] /\ ~enableHostTopology'[n]) => collapseClosed'[n] = {}

NoCollapseWhileDisabled == [][NoCollapseWhileDisabledStep]_vars

\* C35: forwarded streams follow the links.  While the node is host, every
\* peer whose stream is in the HostForwarder has a link in the registry
ForwardedStreamsHaveLinks ==
  LET n == active
  IN isHost[n] => incomingStreams[n] \subseteq {p \in AllIds : Has(St(n), p)}

\* C36: setMixingMode keeps the forwarded peers.  Called while the forwarder
\* is active, setMixingMode leaves the forwarder active and the set of
\* forwarded peer ids (getPeerIds) as it was before the call
SetMixingModeKeepsPeers ==
  LET s == St(active)
      t == HostForwarder_setMixingMode(s)
  IN s.hostForwarderActive =>
       /\ t.hostForwarderActive
       /\ t.incomingStreams = s.incomingStreams

\* the forwarder is active again after the call
SetMixingModeStaysActive ==
  LET s == St(active)
  IN s.hostForwarderActive => HostForwarder_setMixingMode(s).hostForwarderActive

\* C37: session teardown.  After disconnect() the node holds no links, no
\* known peers and no host assignment, isHost is false, the topology manager
\* reports mesh with peer count 0, and no retry timer set before the call
\* creates a link when the same instance has joined a room again
NoLinkFromOldTimers(t) ==
  \A d \in t.detached :
    d.timer =>
      LET u == onRoomJoined(t, {d.peerId}, {d.peerId})
      IN onRetryTimerDetached([u EXCEPT !.created = {}], d).created = {}

SessionTeardown ==
  LET n == active
      t == disconnect(St(n))
  IN n \in present[n] =>
       /\ \A p \in AllIds : ~Has(t, p)
       /\ t.peerUsernames = {}
       /\ t.currentHostId = NoPeer /\ ~t.isHost
       /\ t.currentTopology = "mesh" /\ t.peerCount = 0
       /\ NoLinkFromOldTimers(t)

\* the fields disconnect() assigns: links, known peers, host assignment
TeardownClearsRegistry ==
  LET n == active
      t == disconnect(St(n))
  IN n \in present[n] =>
       /\ \A p \in AllIds : ~Has(t, p)
       /\ t.peerUsernames = {}
       /\ t.currentHostId = NoPeer /\ ~t.isHost /\ ~t.hostForwarderActive

\* the topology manager alone
TeardownResetsTopology ==
  LET t == disconnect(St(active))
  IN active \in present[active] => (t.currentTopology = "mesh" /\ t.peerCount = 0)

\* the timers alone
TeardownSilencesTimers ==
  active \in present[active] => NoLinkFromOldTimers(disconnect(St(active)))

\* C38: membership authenticity on the relay.  Whenever a step removes a
\* peerId from a room's membership or broadcasts peer-left for it, the step
\* is a leave-room or a disconnect of the socket registered for that peerId
ByOwnerSocket(roomId, peerId) ==
  \E socket \in SrvSockets :
    /\ socket = SocketOf(srvRooms[roomId], peerId)
    /\ SrvLeaveRoom(socket, roomId, peerId) \/ SrvDisconnect(socket)

MembershipAuthenticStep ==
  /\ \A roomId \in SrvRoomIds : \A peerId \in SrvPeerIds :
       (peerId \in KeysOf(srvRooms[roomId]) /\ peerId \notin KeysOf(srvRooms'[roomId]))
         => ByOwnerSocket(roomId, peerId)
  /\ \A e \in srvEmits' :
       e.type = "peer-left" =>
         \E roomId \in SrvRoomIds : ByOwnerSocket(roomId, e.peerId)

MembershipAuthentic == [][MembershipAuthenticStep]_vars

\* the disconnect path alone: a peer-left caused by a disconnect names a
\* peerId that the disconnecting socket held in that room
DisconnectRemovesOwnStep ==
  \A socket \in SrvSockets :
    SrvDisconnect(socket) =>
      \A e \in srvEmits' :
        e.type = "peer-left" =>
          \E roomId \in SrvRoomIds : SocketOf(srvRooms[roomId], e.peerId) = socket

DisconnectRemovesOwn == [][DisconnectRemovesOwnStep]_vars

\* C39: no self link.  The roster of a room-joined reply does not contain
\* the joining peerId, and the client that handles the reply holds neither a
\* link nor a known-peer entry under its own peerId
NoSelfLinkStep ==
  \A socket \in SrvSockets, roomId \in SrvRoomIds, peerId \in SrvPeerIds :
    SrvJoinRoom(socket, roomId, peerId) =>
      \A e \in srvEmits' :
        e.type = "room-joined" =>
          LET t == onRoomJoined(St(peerId), e.peers, e.peers)
          IN /\ peerId \notin e.peers
             /\ ~Has(t, peerId)
             /\ peerId \notin t.peerUsernames

NoSelfLink == [][NoSelfLinkStep]_vars

\* the client alone: the room-joined handler given a roster that names the
\* node itself
NoSelfLinkFromRoster ==
  \A roster \in SUBSET {IdA, IdB, IdC} :
    LET t == onRoomJoined(St(active), roster, roster)
    IN ~Has(t, active) /\ active \notin t.peerUsernames

\* the registry and the known peers of the node under the rosters and events
\* of Spec, which never name the node itself
NoSelfLinkHeld ==
  ~Has(St(active), active) /\ active \notin peerUsernames[active]

=============================================================================
